---- MODULE Spec2Model ----
(***************************************************************************)
(* Multilingual-Video-Processor: the job store, the translate handler and  *)
(* the fan-out/fan-in pipeline of one job (processTranslation, its         *)
(* per-language goroutines, the wg.Wait goroutine and the webhook          *)
(* goroutines), modelled step by step from cmd/cloudfunction/main.go and   *)
(* internal/api/status.go.                                                 *)
(***************************************************************************)
EXTENDS Integers, Sequences, FiniteSets, TLC

\* ---------------------------------------------------------------- bounds
\* Largest number of target languages of the request.
MaxLangs == 2
\* Largest configured MAX_CONCURRENT_TRANSLATIONS.
MaxPermits == 2

\* ------------------------------------------------------ program constants
StatusProcessing == "processing"
StatusCompleted == "completed"
StatusFailed == "failed"

\* RATE_LIMIT_RPM default.
RateLimitRPM == 60
\* SUPPORTED_LANGUAGES default.
SupportedLanguages == <<"en", "ar", "de", "ru">>
\* MAX_VIDEO_DURATION default, in seconds.
MaxVideoDuration == 600

\* The identifier utils.GenerateUUID() gives the one job of this model.
JobID == "job-1"

\* ctx.Err() of the pipeline's context: "" while the context is live.
Canceled == "context canceled"
DeadlineExceeded == "context deadline exceeded"

VARIABLES
  req,          \* the TranslateRequest of the inbound POST
  cfg,          \* the loaded Config
  handlerPc,    \* position of handleTranslate
  jobs,         \* InMemoryJobStore.jobs: jobID -> *StatusResponse
  expired,      \* job IDs with time.Since(entry.createdAt) > jobTTL
  ctxErr,       \* processCtx.Err()
  pc,           \* position of processTranslation
  idx,          \* index of the range loop processTranslation is in
  unit,         \* per target language: the goroutine's position and result
  semaphore,    \* len(semaphore): permits held
  done,         \* the done channel: "unmade", "open" or "closed"
  webhooks,     \* webhook goroutines started, not yet past GetStatus
  notified,     \* calls of api.NotifyWebhook made so far
  crashed,      \* the runtime ended the process (fatal error)
  delivery,     \* what the last api.NotifyWebhook call returned
  video,        \* the downloaded video: duration in seconds, size in MB
  tempFiles,    \* processTranslation's tempFiles list
  files,        \* the temporary files on disk
  clock,        \* time.Now(), in units of time
  createdAt,    \* jobEntry.createdAt of each stored record
  updatedAt,    \* StatusResponse.UpdatedAt of each stored record
  mu,           \* InMemoryJobStore.mu: the caller holding it, 0 when free
  callers,      \* the store's concurrent callers: position, call, answer
  applied,      \* per record, the entries the updaters that ran wrote (history)
  requestsPerMinute, \* RateLimiter.requestsPerMinute
  buckets,      \* RateLimiter.buckets: identifier -> *tokenBucket
  bucketHeap,   \* the tokenBucket objects: tokens, lastRefill
  allows,       \* the Allow calls in progress, per caller
  stale,        \* the key cleanup has found stale and is about to delete
  stopCleanup,  \* RateLimiter.stopCleanup is closed
  cleaner,      \* RateLimiter.startCleanup: "waiting" in its select, or "returned"
  sweeper,      \* InMemoryJobStore.startCleanup: "waiting", "ticked" or "returned"
  stt,          \* the language tags of one job, from the hint to TranslateText
  arrivals,     \* the translate requests of one process, each with its job
  disk,         \* the temporary directory of the process: path -> job that wrote it
  history       \* the Allow calls that returned, in order (history)

\* The job store's own state, next to jobs, expired and cfg.
\* The temporary files: the coordinator's list and the disk.
diskVars == <<tempFiles, files>>

storeVars == <<clock, createdAt, updatedAt, mu, callers, applied, sweeper>>

\* What the steps of the handler and of the pipeline leave alone.
\* The rate limiter's state.
limiterVars == <<requestsPerMinute, buckets, bucketHeap, allows, stale,
                 history, stopCleanup, cleaner>>

envVars == <<storeVars, limiterVars>>

\* The source-language tags and the requests of one process: the steps of
\* the single job, of the store and of the limiter leave them alone.
otherVars == <<stt, arrivals, disk>>

vars == <<req, cfg, handlerPc, jobs, expired, ctxErr, pc, idx, unit,
          semaphore, done, webhooks, notified, crashed, delivery, video,
          diskVars, envVars, otherVars>>

\* ------------------------------------------------------------ data model
Terminal == {StatusCompleted, StatusFailed}

\* processLanguage's initial &models.LanguageResult{Status: processing}.
NewResult ==
  [Status |-> StatusProcessing, VideoURL |-> "", TranslatedText |-> "",
   Progress |-> 0, Error |-> "", ProcessedAt |-> FALSE]

\* A failed result that drops the error text.
FailedResultNoText(msg) ==
  [NewResult EXCEPT !.Status = StatusFailed, !.Error = "", !.Progress = 0]

\* A result the code sets to failed with an error text (Progress = 0).
FailedResult(msg) ==
  [NewResult EXCEPT !.Status = StatusFailed, !.Error = msg, !.Progress = 0]

\* The result processLanguage returns after a successful upload.
CompletedResult(lang) ==
  [Status |-> StatusCompleted,
   VideoURL |-> "https://storage.googleapis.com/out/translations/" \o JobID
                  \o "/" \o lang \o ".mp4",
   TranslatedText |-> "translated",
   Progress |-> 100, Error |-> "", ProcessedAt |-> TRUE]

Range(s) == {s[i] : i \in DOMAIN s}

\* ------------------------------------------------------------ validation
\* validator.ValidateVideoURL over the URLs of this model.
ValidateVideoURL(url) ==
  url \in {"gs://bucket/video.mp4", "https://example.com/video.mp4"}

\* storage.ParseGCSURL succeeds: gs:// or https://storage.googleapis.com/.
ParseGCSURLOk(url) == url = "gs://bucket/video.mp4"

\* validator.ValidateLanguageCodes: non-empty, no duplicate, all supported.
ValidateLanguageCodes(languages) ==
  /\ Len(languages) > 0
  /\ \A i, j \in DOMAIN languages : i # j => languages[i] # languages[j]
  /\ \A i \in DOMAIN languages : languages[i] \in Range(SupportedLanguages)

\* A validation that tests the URL and not the target languages.
ValidRequestURLOnly(r) ==
  /\ r.VideoURL # ""
  /\ ValidateVideoURL(r.VideoURL)

\* req.Validate() and validator.ValidateTranslateRequest.
ValidRequest(r) ==
  /\ r.VideoURL # ""
  /\ Len(r.TargetLanguages) > 0
  /\ ValidateVideoURL(r.VideoURL)
  /\ ValidateLanguageCodes(r.TargetLanguages)

\* The requests the model draws from: the valid language lists are the
\* prefixes of the supported list; the others fail validation.
Requests ==
  [VideoURL : {"gs://bucket/video.mp4", "https://example.com/video.mp4"},
   TargetLanguages : {SubSeq(SupportedLanguages, 1, n) : n \in 1..MaxLangs}]
  \cup
  [VideoURL : {"gs://bucket/video.mp4"},
   TargetLanguages : {<<>>, <<"fr">>, <<"en", "en">>}]
  \cup
  [VideoURL : {"", "ftp://host/video.mp4"}, TargetLanguages : {<<"en">>}]

\* The configurations the model draws from (config.LoadConfig, Validate).
Configs ==
  [MaxConcurrentTranslations : 1..MaxPermits,
   WebhookURL : {"", "https://hooks.example.com/jobs"},
   JobTTL : {0, 2}]

Langs == Range(req.TargetLanguages)
NumLangs == Len(req.TargetLanguages)

\* ------------------------------------------------------------- job store
\* An expiry test that forgets `s.jobTTL > 0`.
IsExpiredWithoutTTLTest(jobID) == jobID \in expired

\* The expiry test of GetStatus and UpdateStatusSafely.
IsExpired(jobID) == cfg.JobTTL > 0 /\ jobID \in expired

\* InMemoryJobStore.SetStatus: stores the pointer under the identifier.
SetStatus(jobID, status) == (jobID :> status) @@ jobs

\* InMemoryJobStore.GetStatus: the stored record, or not found.
GetStatus(jobID) ==
  IF jobID \notin DOMAIN jobs THEN [found |-> FALSE]
  ELSE IF IsExpired(jobID) THEN [found |-> FALSE]
  ELSE [found |-> TRUE, status |-> jobs[jobID]]

\* An UpdateStatusSafely without the expiry test.
UpdateStatusSafelyIgnoresExpiry(jobID, updated) ==
  IF jobID \notin DOMAIN jobs THEN jobs
  ELSE [jobs EXCEPT ![jobID] = updated]

\* InMemoryJobStore.UpdateStatusSafely: the store after the call. The
\* updater runs only on a record that is present and not expired;
\* `updated` is what the updater makes of the record and is looked at only
\* on that branch.
UpdateStatusSafely(jobID, updated) ==
  IF jobID \notin DOMAIN jobs THEN jobs
  ELSE IF IsExpired(jobID) THEN jobs
  ELSE [jobs EXCEPT ![jobID] = updated]

\* A result write that also puts the job back to processing.
SetResultResetsStatus(status, lang, result) ==
  [status EXCEPT !.Results = (lang :> result) @@ @,
                 !.Status = StatusProcessing]

\* A result write that replaces the whole mapping by the one entry.
SetResultReplacesMap(status, lang, result) ==
  [status EXCEPT !.Results = (lang :> result)]

\* The closure of the per-language goroutine and of the cancellation path
\* of the loop: status.Results[lang] = result.
SetResult(status, lang, result) ==
  [status EXCEPT !.Results = (lang :> result) @@ @]

\* An updateJobError that never adds the synthetic entry.
UpdateJobErrorNoEntry(status, errorMsg) ==
  [status EXCEPT !.Status = StatusFailed]

\* The closure of updateJobError.
UpdateJobErrorUpdater(status, errorMsg) ==
  [status EXCEPT
     !.Status = StatusFailed,
     !.Results = IF DOMAIN @ = {}
                 THEN ("error" :> [NewResult EXCEPT !.Status = StatusFailed,
                                                   !.Error = errorMsg])
                 ELSE @]

\* The closure of the final status update of processTranslation.
FinalStatusUpdater(status) ==
  LET allCompleted ==
        \A l \in DOMAIN status.Results :
          status.Results[l].Status = StatusCompleted
      anyFailed ==
        \E l \in DOMAIN status.Results :
          status.Results[l].Status = StatusFailed
  IN  IF allCompleted THEN [status EXCEPT !.Status = StatusCompleted]
      ELSE IF anyFailed THEN [status EXCEPT !.Status = StatusFailed]
      ELSE status

\* --------------------------------------------------- store callers, idle
\* Largest number of goroutines calling the store at the same time.
MaxCallers == 2
Callers == 1..MaxCallers

\* A caller that is in no call of the store.
IdleCaller == [pc |-> "idle", op |-> "none", jobID |-> "", key |-> "",
               found |-> FALSE, err |-> FALSE, seen |-> << >>]

\* NewInMemoryJobStore: an empty map, the lock free, nobody calling.
StoreAtRest ==
  /\ clock = 0
  /\ createdAt = << >>
  /\ updatedAt = << >>
  /\ mu = 0
  /\ callers = [p \in Callers |-> IdleCaller]
  /\ applied = << >>
  /\ sweeper = IF cfg.JobTTL > 0 THEN "waiting" ELSE "returned"

\* A caller that is in no Allow call.
IdleAllow == [pc |-> "idle", identifier |-> "", now |-> 0, bucket |-> 0]

\* api.NewRateLimiter(cfg.RateLimitRPM): no bucket yet.
LimiterAtRest ==
  /\ buckets = << >>
  /\ bucketHeap = << >>
  /\ allows = [q \in Callers |-> IdleAllow]
  /\ stale = ""
  /\ history = << >>
  /\ stopCleanup = FALSE
  /\ cleaner = "waiting"

\* No video has been downloaded yet.
NoVideo == [duration |-> 0, sizeMB |-> 0]

\* No request has reached SpeechToText.
SttAtRest ==
  stt = [pc |-> "idle", languageHint |-> "", LanguageCode |-> "",
         Language |-> "", sourceLanguage |-> "", translated |-> << >>]

\* No request has arrived at the process.
ArrivalsAtRest == arrivals = << >>

\* The temporary directory holds no file of any job.
DiskAtRest == disk = << >>

\* No api.NotifyWebhook call has returned yet.
NoDelivery == [attempts |-> 0, err |-> FALSE, answered |-> << >>,
               slept |-> << >>, event |-> "", error |-> ""]

\* ------------------------------------------------------------------ Init
Init ==
  /\ req \in Requests
  /\ cfg \in Configs
  /\ handlerPc = "arrived"
  /\ jobs = << >>
  /\ expired = {}
  /\ ctxErr = ""
  /\ pc = "unstarted"
  /\ idx = 1
  /\ unit = [l \in Langs |-> [pc |-> "unstarted", result |-> NewResult]]
  /\ semaphore = 0
  /\ done = "unmade"
  /\ webhooks = 0
  /\ notified = 0
  /\ crashed = FALSE
  /\ delivery = NoDelivery
  /\ video = NoVideo
  /\ tempFiles = {}
  /\ files = {}
  /\ SttAtRest
  /\ ArrivalsAtRest
  /\ DiskAtRest
  /\ StoreAtRest
  /\ requestsPerMinute = RateLimitRPM
  /\ LimiterAtRest

\* --------------------------------------------------------- TranslateVideo
\* POST /v1/translate: rateLimiter.Allow(clientIP) answers from the
\* client's bucket, which the client's earlier requests may have emptied.
\* A refused request gets a 429 and handleTranslate is not called.
TranslateVideoRateLimited ==
  /\ ~crashed
  /\ handlerPc = "arrived"
  /\ handlerPc' = "limited"
  /\ UNCHANGED <<otherVars, envVars, diskVars, video, delivery, req, cfg, jobs, expired, ctxErr, pc, idx, unit, semaphore,
                 done, webhooks, notified, crashed>>

\* Allow returned true: handleTranslate(w, r) is called.
TranslateVideoAdmitted ==
  /\ ~crashed
  /\ handlerPc = "arrived"
  /\ handlerPc' = "received"
  /\ UNCHANGED <<otherVars, envVars, diskVars, video, delivery, req, cfg, jobs, expired, ctxErr, pc, idx, unit, semaphore,
                 done, webhooks, notified, crashed>>

\* -------------------------------------------------------- handleTranslate
\* A request that fails req.Validate or ValidateTranslateRequest gets a
\* 400 and the handler returns before any job exists.
HandleTranslateReject ==
  /\ ~crashed
  /\ handlerPc = "received"
  /\ ~ValidRequest(req)
  /\ handlerPc' = "rejected"
  /\ UNCHANGED <<otherVars, envVars, diskVars, video, delivery, req, cfg, jobs, expired, ctxErr, pc, idx, unit, semaphore,
                 done, webhooks, notified, crashed>>

\* A valid request: the job is generated and stored as processing with
\* an empty result mapping.
HandleTranslateAccept ==
  /\ ~crashed
  /\ handlerPc = "received"
  /\ ValidRequest(req)
  /\ jobs' = SetStatus(JobID, [JobID |-> JobID, Status |-> StatusProcessing,
                               Results |-> << >>])
  /\ handlerPc' = "stored"
  /\ UNCHANGED <<otherVars, envVars, diskVars, video, delivery, req, cfg, expired, ctxErr, pc, idx, unit, semaphore, done,
                 webhooks, notified, crashed>>

\* Writing the 202 response fails (the client is gone): the handler
\* returns without starting processTranslation.
HandleTranslateEncodeError ==
  /\ ~crashed
  /\ handlerPc = "stored"
  /\ handlerPc' = "returned"
  /\ UNCHANGED <<otherVars, envVars, diskVars, video, delivery, req, cfg, jobs, expired, ctxErr, pc, idx, unit, semaphore,
                 done, webhooks, notified, crashed>>

\* The 202 is written; context.WithTimeout(context.Background(),
\* cfg.RequestTimeout), defer processCancel(), go processTranslation(...).
HandleTranslateSpawn ==
  /\ ~crashed
  /\ handlerPc = "stored"
  /\ handlerPc' = "spawned"
  /\ pc' = "check1"
  /\ UNCHANGED <<otherVars, envVars, diskVars, video, delivery, req, cfg, jobs, expired, ctxErr, idx, unit, semaphore, done,
                 webhooks, notified, crashed>>

\* What the handler's return does to the pipeline's context: the deferred
\* processCancel() cancels it unless the deadline already ended it.
ProcessCancel(err) == IF err = "" THEN Canceled ELSE err

\* handleTranslate returns right after the go statement.
HandleTranslateReturn ==
  /\ ~crashed
  /\ handlerPc = "spawned"
  /\ handlerPc' = "returned"
  /\ ctxErr' = ProcessCancel(ctxErr)
  /\ UNCHANGED <<otherVars, envVars, diskVars, video, delivery, req, cfg, jobs, expired, pc, idx, unit, semaphore, done,
                 webhooks, notified, crashed>>

\* cfg.RequestTimeout elapses on the context made by WithTimeout.
ContextDeadline ==
  /\ ~crashed
  /\ handlerPc \in {"spawned", "returned"}
  /\ pc # "unstarted"
  /\ ctxErr = ""
  /\ ctxErr' = DeadlineExceeded
  /\ UNCHANGED <<otherVars, envVars, diskVars, video, delivery, req, cfg, handlerPc, jobs, expired, pc, idx, unit, semaphore,
                 done, webhooks, notified, crashed>>

\* Time passes until the job's age exceeds a positive JobTTL.
TTLElapses ==
  /\ ~crashed
  /\ cfg.JobTTL > 0
  /\ JobID \in DOMAIN jobs
  /\ JobID \notin expired
  /\ expired' = expired \cup {JobID}
  /\ UNCHANGED <<otherVars, envVars, diskVars, video, delivery, req, cfg, handlerPc, jobs, ctxErr, pc, idx, unit, semaphore,
                 done, webhooks, notified, crashed>>

\* ---------------------------------------------------------- updateJobError
\* The goroutines `go func() { GetStatus; NotifyWebhook }()` running after
\* one more is started when a webhook URL is configured.
StartWebhook(n) == IF cfg.WebhookURL # "" THEN n + 1 ELSE n

\* processTranslation returns: the deferred loop removes every file of
\* tempFiles from the disk, which holds onDisk at that point.
Return(onDisk) ==
  /\ files' = onDisk \ tempFiles
  /\ tempFiles' = tempFiles

\* The temporary files of processLanguage for a language at a position:
\* the synthesized audio from createTempFile before GenerateTTS, the
\* remuxed video from createTempFile before SyncAudioWithVideo, both
\* removed by the deferred os.Remove when processLanguage returns.
LangFiles(lang, at) ==
  IF at = "tts" THEN {"audio_" \o lang}
  ELSE IF at \in {"sync", "upload"} THEN {"audio_" \o lang, "video_" \o lang}
  ELSE {}

\* updateJobError(jobID, errorMsg): the store update, then the webhook
\* goroutine. Every caller returns from processTranslation right after.
updateJobError(errorMsg) ==
  /\ jobs' = UpdateStatusSafely(JobID,
                UpdateJobErrorUpdater(jobs[JobID], errorMsg))
  /\ webhooks' = StartWebhook(webhooks)

\* ------------------------------------- processTranslation: preprocessing
\* A `select { case <-ctx.Done(): updateJobError; return; default: }`
\* checkpoint at position here, continuing at position next.
Checkpoint(here, next) ==
  /\ ~crashed
  /\ pc = here
  /\ IF ctxErr # ""
     THEN /\ updateJobError("processing cancelled: " \o ctxErr)
          /\ pc' = "exit_pre"
          /\ Return(files)
     ELSE /\ pc' = next
          /\ UNCHANGED <<otherVars, envVars, diskVars, delivery, jobs, webhooks>>
  /\ UNCHANGED <<otherVars, envVars, video, delivery, req, cfg, handlerPc, expired, ctxErr, idx, unit, semaphore,
                 done, notified, crashed>>

\* The first checkpoint, then storage.ParseGCSURL(req.VideoURL).
ProcessStart ==
  /\ ~crashed
  /\ pc = "check1"
  /\ IF ctxErr # ""
     THEN /\ updateJobError("processing cancelled: " \o ctxErr)
          /\ pc' = "exit_pre"
          /\ Return(files)
     ELSE IF ~ParseGCSURLOk(req.VideoURL)
     THEN /\ updateJobError("failed to parse video URL: unsupported URL format")
          /\ pc' = "exit_pre"
          /\ Return(files)
     ELSE /\ pc' = "download"
          /\ UNCHANGED <<otherVars, envVars, diskVars, delivery, jobs, webhooks>>
  /\ UNCHANGED <<otherVars, envVars, video, delivery, req, cfg, handlerPc, expired, ctxErr, idx, unit, semaphore,
                 done, notified, crashed>>

\* MAX_VIDEO_SIZE_MB, by default.
MaxVideoSizeMB == 500

\* The videos a download can give: within or over each limit.
Videos == [duration : {300, 900}, sizeMB : {100, 900}]

\* The disk after a failed storageClient.Download: the copy's failure
\* paths remove the file, but the return on a cancelled context after
\* os.Create leaves it.
DownloadLeaves(err) ==
  {files} \cup (IF err # "" THEN {files \cup {"video"}} ELSE {})

\* storageClient.Download returns. It returns a path only if the context
\* is still live at its last check.
Download ==
  /\ ~crashed
  /\ pc = "download"
  /\ \E ok \in {b \in BOOLEAN : b => ctxErr = ""} :
       IF ok
       THEN /\ pc' = "check2"
            /\ video' \in Videos
            /\ files' = files \cup {"video"}
            /\ tempFiles' = tempFiles \cup {"video"}
            /\ UNCHANGED <<otherVars, envVars, delivery, jobs, webhooks>>
       ELSE /\ updateJobError(
                 IF ctxErr # ""
                 THEN "processing cancelled during download: " \o ctxErr
                 ELSE "failed to download video: failed to create reader")
            /\ pc' = "exit_pre"
            /\ video' = video
            /\ \E onDisk \in DownloadLeaves(ctxErr) : Return(onDisk)
  /\ UNCHANGED <<otherVars, envVars, delivery, req, cfg, handlerPc, expired, ctxErr, idx, unit, semaphore,
                 done, notified, crashed>>

\* video.GetVideoDuration returns, then the duration policy; no step
\* looks at the size of the file or at cfg.MaxVideoSizeMB.
VideoDuration ==
  /\ ~crashed
  /\ pc = "duration"
  /\ \/ /\ updateJobError(
             IF ctxErr # ""
             THEN "processing cancelled during duration check: " \o ctxErr
             ELSE "failed to get video duration: ffprobe failed")
        /\ pc' = "exit_pre"
        /\ Return(files)
     \/ LET videoDuration == video.duration IN
          IF videoDuration > MaxVideoDuration
          THEN /\ updateJobError("video duration exceeds maximum")
               /\ pc' = "exit_pre"
               /\ Return(files)
          ELSE /\ pc' = "extract"
               /\ UNCHANGED <<otherVars, envVars, diskVars, delivery, jobs, webhooks>>
  /\ UNCHANGED <<otherVars, envVars, video, delivery, req, cfg, handlerPc, expired, ctxErr, idx, unit, semaphore,
                 done, notified, crashed>>

\* The disk after a failed stt.ExtractAudioFromVideo: ffmpeg may have
\* written its output file before it failed or was killed, and nothing
\* removes it.
ExtractAudioLeaves == {files, files \cup {"audio"}}

\* stt.ExtractAudioFromVideo returns.
ExtractAudio ==
  /\ ~crashed
  /\ pc = "extract"
  /\ \E ok \in BOOLEAN :
       IF ok
       THEN /\ pc' = "check3"
            /\ files' = files \cup {"audio"}
            /\ tempFiles' = tempFiles \cup {"audio"}
            /\ UNCHANGED <<otherVars, envVars, delivery, jobs, webhooks>>
       ELSE /\ updateJobError(
                 IF ctxErr # ""
                 THEN "processing cancelled during audio extraction: " \o ctxErr
                 ELSE "failed to extract audio: ffmpeg failed")
            /\ pc' = "exit_pre"
            /\ \E onDisk \in ExtractAudioLeaves : Return(onDisk)
  /\ UNCHANGED <<otherVars, envVars, video, delivery, req, cfg, handlerPc, expired, ctxErr, idx, unit, semaphore,
                 done, notified, crashed>>

\* The texts stt.SpeechToText returns with a nil error: it turns an empty
\* transcript into an error itself.
SpeechToTextTexts == {"transcribed text"}

\* stt.SpeechToText returns, then the empty-text test.
Transcribe ==
  /\ ~crashed
  /\ pc = "transcribe"
  /\ \/ /\ updateJobError(
             IF ctxErr # ""
             THEN "transcription cancelled: " \o ctxErr
             ELSE "failed to transcribe audio: recognize failed")
        /\ pc' = "exit_pre"
        /\ Return(files)
     \/ \E originalText \in SpeechToTextTexts :
          IF originalText = ""
          THEN /\ updateJobError("transcription returned empty text")
               /\ pc' = "exit_pre"
               /\ Return(files)
          ELSE /\ pc' = "check4"
               /\ UNCHANGED <<otherVars, envVars, diskVars, delivery, jobs, webhooks>>
  /\ UNCHANGED <<otherVars, envVars, video, delivery, req, cfg, handlerPc, expired, ctxErr, idx, unit, semaphore,
                 done, notified, crashed>>

\* ------------------------------------------ processTranslation: fan-out
\* The language the loop index points at.
LangAt(i) == req.TargetLanguages[i]

\* The range loop over req.TargetLanguages, context live: wg.Add(1) and
\* the goroutine of the next language is started.
LoopSpawn ==
  /\ ~crashed
  /\ pc = "loop"
  /\ idx <= NumLangs
  /\ ctxErr = ""
  /\ unit' = [unit EXCEPT ![LangAt(idx)].pc = "acquire"]
  /\ idx' = idx + 1
  /\ UNCHANGED <<otherVars, envVars, diskVars, video, delivery, req, cfg, handlerPc, jobs, expired, ctxErr, pc, semaphore,
                 done, webhooks, notified, crashed>>

\* The loop's checkpoint sees ctx.Done(): the inner loop that marks the
\* remaining languages begins.
LoopCancelled ==
  /\ ~crashed
  /\ pc = "loop"
  /\ idx <= NumLangs
  /\ ctxErr # ""
  /\ pc' = "mark"
  /\ idx' = 1
  /\ UNCHANGED <<otherVars, envVars, diskVars, video, delivery, req, cfg, handlerPc, jobs, expired, ctxErr, unit, semaphore,
                 done, webhooks, notified, crashed>>

\* A goroutine of this job is about to run the map assignment inside
\* UpdateStatusSafely.
WriterAtMap == \E l \in Langs : unit[l].pc = "write" /\ ~IsExpired(JobID)

\* What the unlocked read `jobStatus.Results[lang]` can give: the entry is
\* seen or not; when it races with a goroutine's map write the runtime
\* may also end the process (concurrent map read and map write).
ReadResultsUnlocked(lang) ==
  {IF lang \in DOMAIN jobs[JobID].Results THEN "exists" ELSE "missing"}
  \cup (IF WriterAtMap THEN {"fatal"} ELSE {})

\* One turn of the inner loop: the unlocked read of jobStatus.Results.
MarkCheck ==
  /\ ~crashed
  /\ pc = "mark"
  /\ idx <= NumLangs
  /\ \E seen \in ReadResultsUnlocked(LangAt(idx)) :
       /\ crashed' = (seen = "fatal")
       /\ pc' = IF seen = "missing" THEN "markWrite" ELSE pc
       /\ idx' = IF seen = "exists" THEN idx + 1 ELSE idx
  /\ UNCHANGED <<otherVars, envVars, diskVars, video, delivery, req, cfg, handlerPc, jobs, expired, ctxErr, unit, semaphore,
                 done, webhooks, notified>>

\* The entry the cancellation path of the loop writes.
CancelledEntry == [NewResult EXCEPT !.Status = StatusFailed,
                                    !.Error = "processing cancelled"]

\* The UpdateStatusSafely call of the inner loop for a language it saw
\* no entry of.
MarkWrite ==
  /\ ~crashed
  /\ pc = "markWrite"
  /\ jobs' = UpdateStatusSafely(JobID,
                SetResult(jobs[JobID], LangAt(idx), CancelledEntry))
  /\ pc' = "mark"
  /\ idx' = idx + 1
  /\ UNCHANGED <<otherVars, envVars, diskVars, video, delivery, req, cfg, handlerPc, expired, ctxErr, unit, semaphore, done,
                 webhooks, notified, crashed>>

\* The inner loop is over: updateJobError and return, without waiting for
\* the goroutines already started.
MarkDone ==
  /\ ~crashed
  /\ pc = "mark"
  /\ idx > NumLangs
  /\ updateJobError("processing cancelled: " \o ctxErr)
  /\ pc' = "exit_loop"
  /\ Return(files)
  /\ UNCHANGED <<otherVars, envVars, video, delivery, req, cfg, handlerPc, expired, ctxErr, idx, unit, semaphore,
                 done, notified, crashed>>

\* The loop ends: the done channel is made and the goroutine that runs
\* wg.Wait() and closes it is started.
LoopExit ==
  /\ ~crashed
  /\ pc = "loop"
  /\ idx > NumLangs
  /\ done' = "open"
  /\ pc' = "wait"
  /\ UNCHANGED <<otherVars, envVars, diskVars, video, delivery, req, cfg, handlerPc, jobs, expired, ctxErr, idx, unit,
                 semaphore, webhooks, notified, crashed>>

\* ----------------------------------------------- per-language goroutine
\* processLanguage up to its first call: the checkpoint before translation.
processLanguageBegin(err) ==
  IF err # ""
  THEN [pc |-> "write", result |-> FailedResult("processing cancelled: " \o err)]
  ELSE [pc |-> "translate", result |-> [NewResult EXCEPT !.Progress = 20]]

\* translation.TranslateText returned (failed or not), then the checkpoint
\* before TTS and createTempFile (tempFailed).
processLanguageTranslated(failed, err, tempFailed) ==
  IF failed
  THEN [pc |-> "write",
        result |-> FailedResult(IF err # ""
                                THEN "translation cancelled: " \o err
                                ELSE "translation failed: api error")]
  ELSE IF err # ""
  THEN [pc |-> "write", result |-> FailedResult("processing cancelled: " \o err)]
  ELSE IF tempFailed
  THEN [pc |-> "write",
        result |-> FailedResult("failed to create temp file: no space")]
  ELSE [pc |-> "tts", result |-> [NewResult EXCEPT !.Progress = 40]]

\* tts.GenerateTTS returned, then the checkpoint before the audio sync and
\* createTempFile.
processLanguageSynthesized(failed, err, tempFailed) ==
  IF failed
  THEN [pc |-> "write",
        result |-> FailedResult(IF err # ""
                                THEN "TTS generation cancelled: " \o err
                                ELSE "TTS generation failed: api error")]
  ELSE IF err # ""
  THEN [pc |-> "write", result |-> FailedResult("processing cancelled: " \o err)]
  ELSE IF tempFailed
  THEN [pc |-> "write",
        result |-> FailedResult("failed to create temp file: no space")]
  ELSE [pc |-> "sync", result |-> [NewResult EXCEPT !.Progress = 60]]

\* video.SyncAudioWithVideo returned.
processLanguageSynced(failed, err) ==
  IF failed
  THEN [pc |-> "write",
        result |-> FailedResult(IF err # ""
                                THEN "audio sync cancelled: " \o err
                                ELSE "audio sync failed: ffmpeg failed")]
  ELSE [pc |-> "upload", result |-> [NewResult EXCEPT !.Progress = 80]]

\* storageClient.Upload returned: processLanguage returns its result.
processLanguageUploaded(failed, lang) ==
  IF failed
  THEN [pc |-> "write", result |-> FailedResult("upload failed: upload cancelled")]
  ELSE [pc |-> "write", result |-> CompletedResult(lang)]

\* A channel with room for one permit more than configured.
CanAcquireOneMore == semaphore <= cfg.MaxConcurrentTranslations

\* `semaphore <- struct{}{}` succeeds when the channel has room.
CanAcquire == semaphore < cfg.MaxConcurrentTranslations

\* The goroutine gets its permit and enters processLanguage.
UnitAcquire(l) ==
  /\ ~crashed
  /\ unit[l].pc = "acquire"
  /\ CanAcquire
  /\ semaphore' = semaphore + 1
  /\ unit' = [unit EXCEPT ![l] = processLanguageBegin(ctxErr)]
  /\ UNCHANGED <<otherVars, envVars, diskVars, video, delivery, req, cfg, handlerPc, jobs, expired, ctxErr, pc, idx, done,
                 webhooks, notified, crashed>>

UnitTranslate(l) ==
  /\ ~crashed
  /\ unit[l].pc = "translate"
  /\ \E failed, tempFailed \in BOOLEAN :
       unit' = [unit EXCEPT
                  ![l] = processLanguageTranslated(failed, ctxErr, tempFailed)]
  /\ files' = (files \ LangFiles(l, unit[l].pc)) \cup LangFiles(l, unit'[l].pc)
  /\ UNCHANGED <<otherVars, envVars, tempFiles, video, delivery, req, cfg, handlerPc, jobs, expired, ctxErr, pc, idx,
                 semaphore, done, webhooks, notified, crashed>>

UnitSynthesize(l) ==
  /\ ~crashed
  /\ unit[l].pc = "tts"
  /\ \E failed, tempFailed \in BOOLEAN :
       unit' = [unit EXCEPT
                  ![l] = processLanguageSynthesized(failed, ctxErr, tempFailed)]
  /\ files' = (files \ LangFiles(l, unit[l].pc)) \cup LangFiles(l, unit'[l].pc)
  /\ UNCHANGED <<otherVars, envVars, tempFiles, video, delivery, req, cfg, handlerPc, jobs, expired, ctxErr, pc, idx,
                 semaphore, done, webhooks, notified, crashed>>

UnitSync(l) ==
  /\ ~crashed
  /\ unit[l].pc = "sync"
  /\ \E failed \in BOOLEAN :
       unit' = [unit EXCEPT ![l] = processLanguageSynced(failed, ctxErr)]
  /\ files' = (files \ LangFiles(l, unit[l].pc)) \cup LangFiles(l, unit'[l].pc)
  /\ UNCHANGED <<otherVars, envVars, tempFiles, video, delivery, req, cfg, handlerPc, jobs, expired, ctxErr, pc, idx,
                 semaphore, done, webhooks, notified, crashed>>

\* Upload returns nil only if the context is live at its last check.
UnitUpload(l) ==
  /\ ~crashed
  /\ unit[l].pc = "upload"
  /\ \E failed \in {b \in BOOLEAN : ~b => ctxErr = ""} :
       unit' = [unit EXCEPT ![l] = processLanguageUploaded(failed, l)]
  /\ files' = (files \ LangFiles(l, unit[l].pc)) \cup LangFiles(l, unit'[l].pc)
  /\ UNCHANGED <<otherVars, envVars, tempFiles, video, delivery, req, cfg, handlerPc, jobs, expired, ctxErr, pc, idx,
                 semaphore, done, webhooks, notified, crashed>>

\* The permits held after the deferred `<-semaphore`.
Release(n) == n - 1

\* The end of the goroutine: its UpdateStatusSafely call
\* (status.Results[lang] = result), then the deferred release of the
\* permit and wg.Done().
UnitWrite(l) ==
  /\ ~crashed
  /\ unit[l].pc = "write"
  /\ jobs' = UpdateStatusSafely(JobID,
                SetResult(jobs[JobID], l, unit[l].result))
  /\ semaphore' = Release(semaphore)
  /\ unit' = [unit EXCEPT ![l].pc = "done"]
  /\ UNCHANGED <<otherVars, envVars, diskVars, video, delivery, req, cfg, handlerPc, expired, ctxErr, pc, idx, done,
                 webhooks, notified, crashed>>

\* wg.Wait() returns in the waiting goroutine, which closes done.
WaiterClose ==
  /\ ~crashed
  /\ done = "open"
  /\ \A l \in Langs : unit[l].pc = "done"
  /\ done' = "closed"
  /\ UNCHANGED <<otherVars, envVars, diskVars, video, delivery, req, cfg, handlerPc, jobs, expired, ctxErr, pc, idx, unit,
                 semaphore, webhooks, notified, crashed>>

\* ------------------------------------------- processTranslation: fan-in
\* The outer select receives from done.
WaitDone ==
  /\ ~crashed
  /\ pc = "wait"
  /\ done = "closed"
  /\ pc' = "check5"
  /\ UNCHANGED <<otherVars, envVars, diskVars, video, delivery, req, cfg, handlerPc, jobs, expired, ctxErr, idx, unit,
                 semaphore, done, webhooks, notified, crashed>>

\* The outer select receives from ctx.Done(): the 5 s timer is started.
WaitCancelled ==
  /\ ~crashed
  /\ pc = "wait"
  /\ ctxErr # ""
  /\ pc' = "grace"
  /\ UNCHANGED <<otherVars, envVars, diskVars, video, delivery, req, cfg, handlerPc, jobs, expired, ctxErr, idx, unit,
                 semaphore, done, webhooks, notified, crashed>>

\* The inner select receives from done within the grace period.
GraceDone ==
  /\ ~crashed
  /\ pc = "grace"
  /\ done = "closed"
  /\ pc' = "check5"
  /\ UNCHANGED <<otherVars, envVars, diskVars, video, delivery, req, cfg, handlerPc, jobs, expired, ctxErr, idx, unit,
                 semaphore, done, webhooks, notified, crashed>>

\* The inner select receives from timeout.C: the grace period is over.
GraceTimeout ==
  /\ ~crashed
  /\ pc = "grace"
  /\ pc' = "check5"
  /\ UNCHANGED <<otherVars, envVars, diskVars, video, delivery, req, cfg, handlerPc, jobs, expired, ctxErr, idx, unit,
                 semaphore, done, webhooks, notified, crashed>>

\* The checkpoint after the wait.
AfterWait ==
  /\ ~crashed
  /\ pc = "check5"
  /\ IF ctxErr # ""
     THEN /\ updateJobError("processing cancelled: " \o ctxErr)
          /\ pc' = "exit_cancel"
          /\ Return(files)
     ELSE /\ pc' = "final"
          /\ UNCHANGED <<otherVars, envVars, diskVars, delivery, jobs, webhooks>>
  /\ UNCHANGED <<otherVars, envVars, video, delivery, req, cfg, handlerPc, expired, ctxErr, idx, unit, semaphore,
                 done, notified, crashed>>

\* The final status update, then the webhook goroutine, then return.
FinalStatus ==
  /\ ~crashed
  /\ pc = "final"
  /\ jobs' = UpdateStatusSafely(JobID, FinalStatusUpdater(jobs[JobID]))
  /\ webhooks' = StartWebhook(webhooks)
  /\ pc' = "exit_final"
  /\ Return(files)
  /\ UNCHANGED <<otherVars, envVars, video, delivery, req, cfg, handlerPc, expired, ctxErr, idx, unit, semaphore,
                 done, notified, crashed>>

\* ------------------------------------------------------ webhook goroutine
\* NotifyWebhook calls made once the goroutine's GetStatus has answered.
NotifyIfFound(n, found) == IF found THEN n + 1 ELSE n

\* What the webhook's endpoint can answer to one client.Do(req): a 2xx, a
\* non-2xx, or no answer (connection error, the 5 s timeout).
WebhookAnswers == {"2xx", "non2xx", "error"}
\* maxRetries of NotifyWebhook.
MaxRetries == 2

\* A response counts as delivered when its status code is any but a
\* transport failure.
Is2xxOrAnswered(answer) == answer # "error"

\* `resp.StatusCode >= 200 && resp.StatusCode < 300`.
Is2xx(answer) == answer = "2xx"

\* Seconds slept after the failed attempt numbered `attempt` (from 0).
Backoff(attempt) == attempt + 1

\* What a NotifyWebhook call that made `attempt` attempts returns.
Returned(answers, attempt, failed, slept) ==
  [attempts |-> attempt, err |-> failed,
   answered |-> SubSeq(answers, 1, attempt), slept |-> slept]

\* api.NotifyWebhook's retry loop on the answers of the attempts: it
\* returns nil at the first 2xx, sleeps and goes on after a failure that
\* is not the last, and returns the last error after MaxRetries attempts.
RECURSIVE NotifyAttempts(_, _, _)
NotifyAttempts(answers, attempt, slept) ==
  IF attempt >= MaxRetries THEN Returned(answers, attempt, TRUE, slept)
  ELSE IF Is2xx(answers[attempt + 1])
       THEN Returned(answers, attempt + 1, FALSE, slept)
       ELSE IF attempt < MaxRetries - 1
            THEN NotifyAttempts(answers, attempt + 1,
                                Append(slept, Backoff(attempt)))
            ELSE Returned(answers, attempt + 1, TRUE, slept)

\* A payload whose event does not look at the status.
EventAlwaysCompleted(status) == "job.completed"

\* The event type NotifyWebhook derives from jobStatus.Status.
EventOf(status) ==
  IF status = StatusFailed THEN "job.failed"
  ELSE IF status = StatusProcessing THEN "job.processing"
  ELSE "job.completed"

\* The values payload.Error can get: for a failed job the Error of the
\* first result the range over the map meets that has one (Go ranges over
\* a map in no fixed order), otherwise it stays empty.
PayloadErrors(jobStatus) ==
  LET texts == {jobStatus.Results[k].Error : k \in DOMAIN jobStatus.Results}
                 \ {""}
  IN IF jobStatus.Status = StatusFailed /\ texts # {} THEN texts ELSE {""}

\* api.NotifyWebhook(ctx, webhookURL, jobStatus) with a non-empty URL: the
\* payload it builds and what its retry loop returns.
NotifyWebhook(jobStatus, error, answers) ==
  [event |-> EventOf(jobStatus.Status), error |-> error]
    @@ NotifyAttempts(answers, 0, << >>)

\* NotifyWebhook reads jobStatus.Status and ranges over jobStatus.Results
\* of the pointer GetStatus gave it, outside the lock: racing a
\* goroutine's map write, the runtime may end the process.
NotifyReadsUnlocked(found) ==
  {FALSE} \cup (IF found /\ WriterAtMap THEN {TRUE} ELSE {})

\* A detached task that records the delivery in the job: every notified
\* job ends failed.
WebhookRunRecordsFailure ==
  /\ ~crashed
  /\ webhooks > 0
  /\ webhooks' = webhooks - 1
  /\ LET found == GetStatus(JobID).found IN
       /\ notified' = NotifyIfFound(notified, found)
       /\ crashed' \in NotifyReadsUnlocked(found)
       /\ IF found
          THEN \E answers \in [1..MaxRetries -> WebhookAnswers],
                  error \in PayloadErrors(jobs[JobID]) :
                 delivery' = NotifyWebhook(jobs[JobID], error, answers)
          ELSE delivery' = delivery
  /\ jobs' = IF JobID \in DOMAIN jobs
             THEN [jobs EXCEPT ![JobID].Status = StatusFailed] ELSE jobs
  /\ UNCHANGED <<otherVars, envVars, diskVars, video, req, cfg, handlerPc, expired, ctxErr, pc, idx,
                 unit, semaphore, done>>

\* A webhook goroutine runs: GetStatus, and NotifyWebhook when it found
\* the record. Nothing of the job store is written and nobody waits for
\* the goroutine.
WebhookRun ==
  /\ ~crashed
  /\ webhooks > 0
  /\ webhooks' = webhooks - 1
  /\ LET found == GetStatus(JobID).found IN
       /\ notified' = NotifyIfFound(notified, found)
       /\ crashed' \in NotifyReadsUnlocked(found)
       /\ IF found
          THEN \E answers \in [1..MaxRetries -> WebhookAnswers],
                  error \in PayloadErrors(jobs[JobID]) :
                 delivery' = NotifyWebhook(jobs[JobID], error, answers)
          ELSE delivery' = delivery
  /\ UNCHANGED <<otherVars, envVars, diskVars, video, req, cfg, handlerPc, jobs, expired, ctxErr, pc, idx,
                 unit, semaphore, done>>

\* --------------------------------------------------------- specifications
Handler ==
  \/ TranslateVideoRateLimited
  \/ TranslateVideoAdmitted
  \/ HandleTranslateReject
  \/ HandleTranslateAccept
  \/ HandleTranslateEncodeError
  \/ HandleTranslateSpawn
  \/ HandleTranslateReturn

Coordinator ==
  \/ ProcessStart
  \/ Download
  \/ Checkpoint("check2", "duration")
  \/ VideoDuration
  \/ ExtractAudio
  \/ Checkpoint("check3", "transcribe")
  \/ Transcribe
  \/ Checkpoint("check4", "loop")
  \/ LoopSpawn
  \/ LoopCancelled
  \/ MarkCheck
  \/ MarkWrite
  \/ MarkDone
  \/ LoopExit
  \/ WaitDone
  \/ WaitCancelled
  \/ GraceDone
  \/ GraceTimeout
  \/ AfterWait
  \/ FinalStatus

Unit(l) ==
  \/ UnitAcquire(l)
  \/ UnitTranslate(l)
  \/ UnitSynthesize(l)
  \/ UnitSync(l)
  \/ UnitUpload(l)
  \/ UnitWrite(l)

Next ==
  \/ Handler
  \/ Coordinator
  \/ \E l \in Langs : UnitAcquire(l)
  \/ \E l \in Langs : UnitTranslate(l)
  \/ \E l \in Langs : UnitSynthesize(l)
  \/ \E l \in Langs : UnitSync(l)
  \/ \E l \in Langs : UnitUpload(l)
  \/ \E l \in Langs : UnitWrite(l)
  \/ WaiterClose
  \/ WebhookRun
  \/ ContextDeadline
  \/ TTLElapses

Spec == Init /\ [][Next]_vars

\* The Go scheduler runs every runnable goroutine, timers fire, and the
\* calls to the collaborators return; time passing the job's TTL is not
\* forced.
FairSpec ==
  /\ Spec
  /\ WF_vars(Handler)
  /\ WF_vars(Coordinator)
  /\ \A l \in Range(SupportedLanguages) : WF_vars(l \in Langs /\ Unit(l))
  /\ WF_vars(WaiterClose)
  /\ WF_vars(WebhookRun)
  /\ WF_vars(ContextDeadline)

\* ------------------------------------- the job store under its callers
\* The identifiers the callers use: utils.GenerateUUID() of two jobs.
JobIDs == {"job-1", "job-2"}
\* The keys the callers' updaters write into a record's Results.
StoreKeys == {"en", "ar"}
\* Largest reading of the clock.
MaxClock == 3

\* The variables only the handler and the pipeline of one job change.
pipelineVars == <<req, handlerPc, ctxErr, pc, idx, unit, semaphore, done,
                  webhooks, notified, crashed, delivery, video, diskVars>>

\* The record handleTranslate stores for a new job.
NewJobStatus(jobID) ==
  [JobID |-> jobID, Status |-> StatusProcessing, Results |-> << >>]

\* The result a caller's updater writes under a key.
StoreResult(key) == CompletedResult(key)

\* The records whose age has reached the TTL.
PastTTLInclusive(created, now) ==
  {j \in DOMAIN created : now - created[j] >= cfg.JobTTL}

\* time.Since(entry.createdAt) > s.jobTTL for the records of `created`
\* at the reading `now` of the clock.
PastTTL(created, now) ==
  {j \in DOMAIN created : now - created[j] > cfg.JobTTL}

\* A Lock() that never waits.
LockNeverWaits == TRUE

\* sync.RWMutex: Lock() and RLock() go through only while no writer holds it.
LockFree == mu = 0

\* The error UpdateStatusSafely returns: StatusNotFoundError for a record
\* that is absent or expired, nil otherwise.
UpdateError(jobID) == jobID \notin DOMAIN jobs \/ IsExpired(jobID)

\* A stamp that writes the zero time.
StampUpdatedAtZero(jobID) ==
  IF UpdateError(jobID) THEN updatedAt
  ELSE [updatedAt EXCEPT ![jobID] = 0]

\* entry.status.UpdatedAt = time.Now(), on the path where the updater ran.
StampUpdatedAt(jobID) ==
  IF UpdateError(jobID) THEN updatedAt
  ELSE [updatedAt EXCEPT ![jobID] = clock]

\* The store and the callers before any call; the pipeline is not running.
StoreInit ==
  /\ cfg \in {c \in Configs : c.MaxConcurrentTranslations = 1 /\ c.WebhookURL = ""}
  /\ req = [VideoURL |-> "gs://bucket/video.mp4", TargetLanguages |-> <<"en">>]
  /\ handlerPc = "arrived"
  /\ jobs = << >>
  /\ expired = {}
  /\ ctxErr = ""
  /\ pc = "unstarted"
  /\ idx = 1
  /\ unit = [l \in Langs |-> [pc |-> "unstarted", result |-> NewResult]]
  /\ semaphore = 0
  /\ done = "unmade"
  /\ webhooks = 0
  /\ notified = 0
  /\ crashed = FALSE
  /\ delivery = NoDelivery
  /\ video = NoVideo
  /\ tempFiles = {}
  /\ files = {}
  /\ SttAtRest
  /\ ArrivalsAtRest
  /\ DiskAtRest
  /\ StoreAtRest
  /\ requestsPerMinute = RateLimitRPM
  /\ LimiterAtRest

\* startCleanup's ticker period, `s.jobTTL / 2`, for a positive TTL.
SweepEvery == cfg.JobTTL \div 2

\* Time passes by one unit; the ticker of a waiting startCleanup fires
\* when a period is over.
Tick ==
  /\ clock < MaxClock
  /\ clock' = clock + 1
  /\ expired' = PastTTL(createdAt, clock')
  /\ sweeper' = IF sweeper = "waiting" /\ clock' % SweepEvery = 0
                THEN "ticked" ELSE sweeper
  /\ UNCHANGED <<otherVars, pipelineVars, limiterVars, cfg, jobs, createdAt, updatedAt, mu, callers,
                 applied>>

\* A caller's SetStatus for a new identifier (status.CreatedAt is set by
\* the caller, so only the entry's createdAt is taken from the clock).
StoreSetStatus(p, jobID) ==
  /\ callers[p].pc = "idle"
  /\ LockFree
  /\ jobID \notin DOMAIN jobs
  /\ jobs' = SetStatus(jobID, NewJobStatus(jobID))
  /\ createdAt' = (jobID :> clock) @@ createdAt
  /\ updatedAt' = (jobID :> clock) @@ updatedAt
  /\ applied' = (jobID :> << >>) @@ applied
  /\ expired' = PastTTL(createdAt', clock)
  /\ callers' = [callers EXCEPT ![p] = IdleCaller]
  /\ UNCHANGED <<otherVars, pipelineVars, limiterVars, sweeper, cfg, clock, mu>>

\* A caller's GetStatus: under the read lock it answers with the pointer
\* entry.status or with StatusNotFoundError. The caller keeps what it saw
\* through the pointer when the call returned.
StoreGetStatus(p, jobID) ==
  /\ callers[p].pc = "idle"
  /\ LockFree
  /\ LET got == GetStatus(jobID) IN
       callers' = [callers EXCEPT ![p] =
         [IdleCaller EXCEPT !.op = "get", !.jobID = jobID,
                            !.found = got.found, !.err = ~got.found,
                            !.seen = IF got.found
                                     THEN [status |-> got.status,
                                           updatedAt |-> updatedAt[jobID]]
                                     ELSE << >>]]
  /\ UNCHANGED <<otherVars, pipelineVars, limiterVars, sweeper, cfg, jobs, expired, clock, createdAt, updatedAt,
                 mu, applied>>

\* A caller enters UpdateStatusSafely: s.mu.Lock().
StoreUpdateLock(p, jobID, key) ==
  /\ callers[p].pc = "idle"
  /\ LockFree
  /\ mu' = p
  /\ callers' = [callers EXCEPT ![p] = [IdleCaller EXCEPT !.pc = "locked",
                                                          !.op = "update",
                                                          !.jobID = jobID,
                                                          !.key = key]]
  /\ UNCHANGED <<otherVars, pipelineVars, limiterVars, sweeper, cfg, jobs, expired, clock, createdAt, updatedAt,
                 applied>>

\* The body of UpdateStatusSafely under the lock: the lookup, the expiry
\* test, the updater (status.Results[key] = result), the stamp, and the
\* deferred Unlock at the return.
StoreUpdateBody(p) ==
  /\ callers[p].pc = "locked"
  /\ LET jobID == callers[p].jobID
         key == callers[p].key
         result == StoreResult(key)
     IN /\ jobs' = UpdateStatusSafely(jobID, SetResult(jobs[jobID], key, result))
        /\ updatedAt' = StampUpdatedAt(jobID)
        /\ applied' = IF UpdateError(jobID) THEN applied
                      ELSE [applied EXCEPT ![jobID] = (key :> result) @@ @]
        /\ callers' = [callers EXCEPT ![p] =
                         [IdleCaller EXCEPT !.op = "update",
                                            !.jobID = jobID,
                                            !.err = UpdateError(jobID)]]
  /\ mu' = 0
  /\ UNCHANGED <<otherVars, pipelineVars, limiterVars, sweeper, cfg, expired, clock, createdAt>>

\* CleanupExpiredJobs, as startCleanup's ticker runs it: under the lock it
\* deletes every record whose age exceeds a positive TTL.
CleanupExpiredJobs ==
  /\ sweeper = "ticked"
  /\ sweeper' = "waiting"
  /\ cfg.JobTTL > 0
  /\ LockFree
  /\ LET gone == PastTTL(createdAt, clock)
         keep == DOMAIN jobs \ gone
     IN /\ jobs' = [j \in keep |-> jobs[j]]
        /\ createdAt' = [j \in keep |-> createdAt[j]]
        /\ updatedAt' = [j \in keep |-> updatedAt[j]]
        /\ applied' = [j \in keep |-> applied[j]]
        /\ expired' = expired \ gone
  /\ UNCHANGED <<otherVars, pipelineVars, limiterVars, cfg, clock, mu, callers>>

\* RateLimiter.Stop: close(rl.stopCleanup), the one stop signal the owner
\* of the two background tasks has.
Stop ==
  /\ ~stopCleanup
  /\ stopCleanup' = TRUE
  /\ UNCHANGED <<otherVars, pipelineVars, storeVars, cfg, jobs, expired,
                 requestsPerMinute, buckets, bucketHeap, allows, stale,
                 history, cleaner>>

\* The rate limiter's startCleanup takes `case <-rl.stopCleanup` of its
\* select and returns.
CleanupReturns ==
  /\ cleaner = "waiting"
  /\ stale = ""
  /\ stopCleanup
  /\ cleaner' = "returned"
  /\ UNCHANGED <<otherVars, pipelineVars, storeVars, cfg, jobs, expired,
                 requestsPerMinute, buckets, bucketHeap, allows, stale,
                 history, stopCleanup>>

StoreNext ==
  \/ Tick
  \/ \E p \in Callers, j \in JobIDs : StoreSetStatus(p, j)
  \/ \E p \in Callers, j \in JobIDs : StoreGetStatus(p, j)
  \/ \E p \in Callers, j \in JobIDs, k \in StoreKeys : StoreUpdateLock(p, j, k)
  \/ \E p \in Callers : StoreUpdateBody(p)
  \/ CleanupExpiredJobs

StoreSpec == StoreInit /\ [][StoreNext]_vars

\* The two background tasks and their owner: time passes, one caller sets
\* and reads records, the store's sweep runs on its ticker, and the owner
\* may signal stop. Each task takes a step it can take.
SweepsNext ==
  \/ Tick
  \/ \E j \in JobIDs : StoreSetStatus(1, j)
  \/ \E j \in JobIDs : StoreGetStatus(1, j)
  \/ CleanupExpiredJobs
  \/ Stop
  \/ CleanupReturns

SweepsSpec ==
  /\ StoreInit
  /\ [][SweepsNext]_vars
  /\ WF_vars(CleanupExpiredJobs)
  /\ WF_vars(CleanupReturns)

\* ------------------------------------------- the rate limiter, per caller
\* Largest requestsPerMinute the limiter is made with.
MaxRate == 2
\* Allow calls of one run: a burst of capacity + 1 and one more.
MaxAllows == MaxRate + 2
\* The client identifiers (api.GetClientIP).
ClientIPs == {"10.0.0.1", "10.0.0.2"}
\* Seconds in the minute of tokensPerSecond and in the hour of cleanup.
Minute == 60
Hour == 3600
\* The limiter's clock advances by half minutes, for Window seconds, and
\* by one hour, once.
HalfMinute == 30
TickSeconds == {HalfMinute, Hour}
Window == 90
Horizon == Hour + Window

\* int(x / y) of Go for y > 0: the quotient truncated toward zero.
TruncDiv(x, y) == IF x >= 0 THEN x \div y ELSE -((-x) \div y)

\* tokensToAdd := int(elapsed * tokensPerSecond), with
\* tokensPerSecond = requestsPerMinute / 60.
TokensToAdd(elapsed) == TruncDiv(elapsed * requestsPerMinute, Minute)

\* A refill that does not cap the count.
RefillUncapped(bucket, now) ==
  LET add == TokensToAdd(now - bucket.lastRefill) IN
    IF add > 0
    THEN [tokens |-> bucket.tokens + add, lastRefill |-> now]
    ELSE bucket

\* A refill that moves lastRefill to the call's clock reading whether or
\* not a token is due.
RefillSetsLastRefill(bucket, now) ==
  LET add == TokensToAdd(now - bucket.lastRefill) IN
    [tokens |-> IF add <= 0 THEN bucket.tokens
                ELSE IF bucket.tokens + add > requestsPerMinute
                THEN requestsPerMinute
                ELSE bucket.tokens + add,
     lastRefill |-> now]

\* The refill of Allow: tokens are added, capped at requestsPerMinute, and
\* lastRefill moves to now, only when at least one token is due.
Refill(bucket, now) ==
  LET add == TokensToAdd(now - bucket.lastRefill) IN
    IF add > 0
    THEN [tokens |-> IF bucket.tokens + add > requestsPerMinute
                     THEN requestsPerMinute
                     ELSE bucket.tokens + add,
          lastRefill |-> now]
    ELSE bucket

\* A test that lets a call through on an empty bucket.
HasTokenOrEmpty(bucket) == bucket.tokens >= 0

\* `if bucket.tokens > 0`.
HasToken(bucket) == bucket.tokens > 0

\* The tokenBucket objects still reachable: from the map or from a call.
Reachable(bk, al) ==
  {bk[i] : i \in DOMAIN bk} \cup
  {al[q].bucket : q \in {c \in Callers : al[c].pc = "entered"}}

\* What is left of the heap once the unreachable buckets are collected.
Collect(heap, bk, al) ==
  [r \in DOMAIN heap \cap Reachable(bk, al) |-> heap[r]]

\* The address of a bucket made by `&tokenBucket{...}`.
NewBucket == CHOOSE r \in 1..(MaxCallers + Cardinality(ClientIPs) + 1) :
               r \notin DOMAIN bucketHeap

\* The limiter before any call; the pipeline and the store are at rest.
LimiterInit ==
  /\ cfg \in {c \in Configs : c.MaxConcurrentTranslations = 1
                              /\ c.WebhookURL = "" /\ c.JobTTL = 0}
  /\ req = [VideoURL |-> "gs://bucket/video.mp4", TargetLanguages |-> <<"en">>]
  /\ handlerPc = "arrived"
  /\ jobs = << >>
  /\ expired = {}
  /\ ctxErr = ""
  /\ pc = "unstarted"
  /\ idx = 1
  /\ unit = [l \in Langs |-> [pc |-> "unstarted", result |-> NewResult]]
  /\ semaphore = 0
  /\ done = "unmade"
  /\ webhooks = 0
  /\ notified = 0
  /\ crashed = FALSE
  /\ delivery = NoDelivery
  /\ video = NoVideo
  /\ tempFiles = {}
  /\ files = {}
  /\ SttAtRest
  /\ ArrivalsAtRest
  /\ DiskAtRest
  /\ StoreAtRest
  /\ requestsPerMinute \in 0..MaxRate
  /\ LimiterAtRest

\* Time passes.
LimiterTick(d) ==
  /\ clock + d <= Horizon
  /\ d < Hour => (clock % Hour) + d <= Window
  /\ clock' = clock + d
  /\ UNCHANGED <<otherVars, pipelineVars, cfg, jobs, expired, createdAt, updatedAt, mu,
                 callers, applied, sweeper, limiterVars>>

\* Allow up to the bucket's lock: now := time.Now(), then LoadOrStore
\* gives the identifier's bucket, or stores and gives a new full one.
AllowEnter(q, identifier) ==
  /\ allows[q].pc = "idle"
  /\ Len(history) + Cardinality({c \in Callers : allows[c].pc = "entered"})
       < MaxAllows
  /\ IF identifier \in DOMAIN buckets
     THEN /\ allows' = [allows EXCEPT ![q] =
                          [pc |-> "entered", identifier |-> identifier,
                           now |-> clock, bucket |-> buckets[identifier]]]
          /\ UNCHANGED <<buckets, bucketHeap>>
     ELSE /\ allows' = [allows EXCEPT ![q] =
                          [pc |-> "entered", identifier |-> identifier,
                           now |-> clock, bucket |-> NewBucket]]
          /\ bucketHeap' = (NewBucket :> [tokens |-> requestsPerMinute,
                                          lastRefill |-> clock]) @@ bucketHeap
          /\ buckets' = (identifier :> NewBucket) @@ buckets
  /\ UNCHANGED <<otherVars, pipelineVars, storeVars, cfg, jobs, expired, stopCleanup,
                 cleaner, requestsPerMinute, stale, history>>

\* An Allow that takes its token from every bucket of the limiter.
AllowLockedTakesFromAll(q) ==
  /\ allows[q].pc = "entered"
  /\ LET b == allows[q].bucket
         refilled == Refill(bucketHeap[b], allows[q].now)
         ok == HasToken(refilled)
         after == [r \in DOMAIN bucketHeap |->
                     IF r = b
                     THEN IF ok THEN [refilled EXCEPT !.tokens = @ - 1]
                                ELSE refilled
                     ELSE IF ok /\ bucketHeap[r].tokens > 0
                          THEN [bucketHeap[r] EXCEPT !.tokens = @ - 1]
                          ELSE bucketHeap[r]]
         idle == [allows EXCEPT ![q] = IdleAllow]
     IN /\ allows' = idle
        /\ bucketHeap' = Collect(after, buckets, idle)
        /\ history' = Append(history, [identifier |-> allows[q].identifier,
                                       at |-> allows[q].now, ok |-> ok])
  /\ UNCHANGED <<otherVars, pipelineVars, storeVars, cfg, jobs, expired, stopCleanup,
                 cleaner, requestsPerMinute, buckets, stale>>

\* Allow under bucket.mu: the refill from the elapsed time, then one token
\* is taken if there is one; the deferred Unlock at the return.
AllowLocked(q) ==
  /\ allows[q].pc = "entered"
  /\ LET b == allows[q].bucket
         refilled == Refill(bucketHeap[b], allows[q].now)
         ok == HasToken(refilled)
         after == IF ok THEN [refilled EXCEPT !.tokens = @ - 1] ELSE refilled
         idle == [allows EXCEPT ![q] = IdleAllow]
     IN /\ allows' = idle
        /\ bucketHeap' = Collect([bucketHeap EXCEPT ![b] = after], buckets, idle)
        /\ history' = Append(history, [identifier |-> allows[q].identifier,
                                       at |-> allows[q].now, ok |-> ok])
  /\ UNCHANGED <<otherVars, pipelineVars, storeVars, cfg, jobs, expired, stopCleanup,
                 cleaner, requestsPerMinute, buckets, stale>>

\* cleanup visits a bucket: under bucket.mu it reads lastRefill and finds
\* it before the cutoff, one hour back.
CleanupFindsStale(identifier) ==
  /\ cleaner = "waiting"
  /\ stale = ""
  /\ identifier \in DOMAIN buckets
  /\ bucketHeap[buckets[identifier]].lastRefill < clock - Hour
  /\ stale' = identifier
  /\ UNCHANGED <<otherVars, pipelineVars, storeVars, cfg, jobs, expired, stopCleanup,
                 cleaner, requestsPerMinute, buckets, bucketHeap, allows, history>>

\* cleanup deletes the key it found stale: rl.buckets.Delete(key).
CleanupDelete ==
  /\ stale # ""
  /\ stale' = ""
  /\ buckets' = [i \in DOMAIN buckets \ {stale} |-> buckets[i]]
  /\ bucketHeap' = Collect(bucketHeap, buckets', allows)
  /\ UNCHANGED <<otherVars, pipelineVars, storeVars, cfg, jobs, expired, stopCleanup,
                 cleaner, requestsPerMinute, allows, history>>

LimiterNext ==
  \/ \E d \in TickSeconds : LimiterTick(d)
  \/ \E q \in Callers, i \in ClientIPs : AllowEnter(q, i)
  \/ \E q \in Callers : AllowLocked(q)
  \/ \E i \in ClientIPs : CleanupFindsStale(i)
  \/ CleanupDelete

LimiterSpec == LimiterInit /\ [][LimiterNext]_vars

\* ------------------------------------------------------------ vocabulary
Accepted == JobID \in DOMAIN jobs
Status == IF Accepted THEN jobs[JobID].Status ELSE "none"
Results == IF Accepted THEN jobs[JobID].Results ELSE << >>

\* processTranslation is between the end of preprocessing and its return.
FanOutPcs == {"loop", "mark", "markWrite", "wait", "grace", "check5", "final"}
\* processTranslation has returned.
ExitPcs == {"exit_pre", "exit_loop", "exit_cancel", "exit_final"}

CtxCauses == {Canceled, DeadlineExceeded}
\* The error texts that name cancellation.
CancellationTexts ==
  {"processing cancelled"} \cup
  {p \o c : p \in {"processing cancelled: ", "translation cancelled: ",
                   "TTS generation cancelled: ", "audio sync cancelled: "},
            c \in CtxCauses}

\* ---------------------------------------------------------------- claims
\* C1: once the job's status is completed or failed, no step changes it.
C1_TerminalStatusNeverChanges ==
  [][(Accepted /\ jobs[JobID].Status \in Terminal)
       => (JobID \in DOMAIN jobs' /\ jobs'[JobID].Status = jobs[JobID].Status)]_vars

\* C1 witness: the job was failed with the synthetic entry (its mapping was
\* empty then) and a per-language goroutine has written its result since.
C1_Witness ==
  /\ Status = StatusFailed
  /\ "error" \in DOMAIN Results
  /\ \E l \in Langs : l \in DOMAIN Results /\ unit[l].pc = "done"

\* C2: when the coordinator sets the terminal status after preprocessing
\* succeeded, the mapping holds exactly the N requested languages, each
\* completed or failed.
C2_ExactlyNTerminalEntries ==
  [][(Accepted /\ Status = StatusProcessing /\ pc \in FanOutPcs
        /\ jobs'[JobID].Status \in Terminal)
       => /\ DOMAIN jobs'[JobID].Results = Langs
          /\ \A l \in Langs : jobs'[JobID].Results[l].Status \in Terminal]_vars

\* C3: the terminal status set after fan-in is completed iff all N results
\* are completed; failed only with all N terminal and one of them failed.
C3_AggregateMatchesResults ==
  [][(Accepted /\ Status = StatusProcessing /\ pc \in {"check5", "final"}
        /\ jobs'[JobID].Status \in Terminal)
       => LET R == jobs'[JobID].Results
              AllCompleted == \A l \in Langs :
                 l \in DOMAIN R /\ R[l].Status = StatusCompleted
          IN  /\ jobs'[JobID].Status = StatusCompleted <=> AllCompleted
              /\ jobs'[JobID].Status = StatusFailed =>
                   /\ \A l \in Langs :
                        l \in DOMAIN R /\ R[l].Status \in Terminal
                   /\ \E l \in Langs : R[l].Status = StatusFailed]_vars

\* C4: when the status becomes terminal under a cancelled context, every
\* requested language has a terminal result, and the languages whose
\* goroutine was never started or has not finished are failed with an
\* error text that names cancellation.
C4_CancelledLanguagesMarkedFailed ==
  [][(Accepted /\ Status = StatusProcessing /\ pc \in FanOutPcs
        /\ ctxErr # "" /\ jobs'[JobID].Status \in Terminal)
       => LET R == jobs'[JobID].Results
          IN  \A l \in Langs :
                /\ l \in DOMAIN R
                /\ R[l].Status \in Terminal
                /\ unit[l].pc # "done" =>
                     /\ R[l].Status = StatusFailed
                     /\ R[l].Error \in CancellationTexts]_vars

\* C3 witness: the job is failed although every requested language has a
\* completed result.
C3_Witness ==
  /\ pc = "exit_cancel"
  /\ Status = StatusFailed
  /\ \A l \in Langs :
       l \in DOMAIN Results /\ Results[l].Status = StatusCompleted

\* C5: every accepted job whose pipeline was started eventually has a
\* terminal status, set by a processTranslation that has returned (a
\* record that passes its TTL first is left aside).
C5_AcceptedJobReachesTerminalStatus ==
  [](pc # "unstarted"
       => <>((pc \in ExitPcs /\ Status \in Terminal) \/ IsExpired(JobID)))

\* Every goroutine of the job that was started has returned.
AllUnitsDone == \A l \in Langs : unit[l].pc = "done"

\* A step of the goroutine of language l leaves the siblings' goroutines,
\* the siblings' entries, the job's status, the context and the
\* coordinator alone.
UnitStepIsLocal(l) ==
  (unit[l].pc # "unstarted" /\ unit'[l] # unit[l]) =>
    /\ \A k \in Langs \ {l} : unit'[k] = unit[k]
    /\ ctxErr' = ctxErr
    /\ pc' = pc
    /\ jobs'[JobID].Status = jobs[JobID].Status
    /\ DOMAIN jobs'[JobID].Results \subseteq DOMAIN jobs[JobID].Results \cup {l}
    /\ \A k \in DOMAIN jobs[JobID].Results \ {l} :
         /\ k \in DOMAIN jobs'[JobID].Results
         /\ jobs'[JobID].Results[k] = jobs[JobID].Results[k]

\* The failure of a finished goroutine is in the job's mapping, under its
\* language, as failed with an error text.
FailuresRecorded ==
  \A l \in Langs :
    (unit[l].pc = "done" /\ unit[l].result.Status = StatusFailed) =>
      /\ l \in DOMAIN Results
      /\ Results[l].Status = StatusFailed
      /\ Results[l].Error # ""

\* The two-language scenario: a succeeded, b's translation failed, and
\* everything has returned.
PartialFailureScenario ==
  (NumLangs = 2 /\ pc \in ExitPcs /\ AllUnitsDone) =>
    \A a, b \in Langs :
      (/\ unit[a].result.Status = StatusCompleted
       /\ unit[b].result.Error = "translation failed: api error") =>
        /\ Status = StatusFailed
        /\ a \in DOMAIN Results
        /\ Results[a].Status = StatusCompleted
        /\ Results[a].VideoURL # ""
        /\ b \in DOMAIN Results
        /\ Results[b].Status = StatusFailed
        /\ Results[b].Error # ""

\* C6 as stated: a language's failure is recorded in its own result as
\* failed with an error text and touches no sibling; in the two-language
\* scenario the job ends failed, with one completed and one failed result.
C6_FailureIsLocalised ==
  /\ [][\A l \in Langs : UnitStepIsLocal(l)]_vars
  /\ [](FailuresRecorded /\ PartialFailureScenario)

\* C6 as amended: the same, for a job whose record has not passed its TTL.
C6_FailureIsLocalisedWhileVisible ==
  /\ [][\A l \in Langs : UnitStepIsLocal(l)]_vars
  /\ [](~IsExpired(JobID) => (FailuresRecorded /\ PartialFailureScenario))

\* C6 witness: the two-language scenario has happened on a visible record.
C6_Witness ==
  /\ NumLangs = 2 /\ pc \in ExitPcs /\ AllUnitsDone /\ ~IsExpired(JobID)
  /\ unit["en"].result.Status = StatusCompleted
  /\ unit["ar"].result.Error = "translation failed: api error"
  /\ Status = StatusFailed
  /\ Results["en"].Status = StatusCompleted

\* What C7 says of a job whose preprocessing failed.
PreprocessingFailureRecorded ==
  /\ Status = StatusFailed
  /\ DOMAIN Results = {"error"}
  /\ Results["error"].Status = StatusFailed
  /\ Results["error"].Error # ""

\* C7 as stated: after a preprocessing failure the job is failed with
\* exactly one synthetic entry and no goroutine of a language was started.
C7_PreprocessingFailureFailsJob ==
  pc = "exit_pre" =>
    /\ PreprocessingFailureRecorded
    /\ \A l \in Langs : unit[l].pc = "unstarted"

\* C7 as amended: the record is failed with the one synthetic entry unless
\* it has passed its TTL; no goroutine of a language is started either way.
C7_PreprocessingFailureFailsVisibleJob ==
  pc = "exit_pre" =>
    /\ ~IsExpired(JobID) => PreprocessingFailureRecorded
    /\ \A l \in Langs : unit[l].pc = "unstarted"

\* C7 witness: a collaborator of the preprocessing failed under a live
\* context and the job carries the synthetic entry.
C7_Witness ==
  /\ pc = "exit_pre"
  /\ ctxErr = ""
  /\ PreprocessingFailureRecorded
  /\ Results["error"].Error = "failed to extract audio: ffmpeg failed"

\* The goroutines that hold a permit: inside processLanguage or at their
\* result write.
Running ==
  {l \in Langs : unit[l].pc \in {"translate", "tts", "sync", "upload", "write"}}

\* C8: at most MaxConcurrentTranslations goroutines run processLanguage at
\* once, each holds exactly one permit, and all permits are free once
\* every goroutine has finished.
C8_BoundedConcurrency ==
  /\ Cardinality(Running) <= cfg.MaxConcurrentTranslations
  /\ semaphore = Cardinality(Running)
  /\ (\A l \in Langs : unit[l].pc \in {"unstarted", "done"}) => semaphore = 0

\* C8 witness: every permit is held and a started goroutine waits for one.
C8_Witness ==
  /\ Cardinality(Running) = cfg.MaxConcurrentTranslations
  /\ \E l \in Langs : unit[l].pc = "acquire"

\* C9: NotifyWebhook is called at most once for the job, only after its
\* status is terminal, and at least once when a webhook URL is configured
\* and the record stays visible.
C9_NotifiedExactlyOnce ==
  /\ [](notified <= 1)
  /\ [](notified > 0 => Status \in Terminal)
  /\ []((pc # "unstarted" /\ cfg.WebhookURL # "")
          => <>(notified >= 1 \/ IsExpired(JobID)))

\* C10: the pipeline's context ends only by its deadline, and a job that
\* ended without the deadline and without a collaborator's failure is
\* completed.
C10_ContextEndsOnlyByDeadline ==
  /\ ctxErr # "" => ctxErr = DeadlineExceeded
  /\ (/\ pc \in ExitPcs
      /\ ctxErr # DeadlineExceeded
      /\ ~IsExpired(JobID)
      /\ \A k \in DOMAIN Results :
           Results[k].Error \in CancellationTexts \cup {""})
       => Status = StatusCompleted

\* ------------------------------------------------- claims on the store
\* The callers inside UpdateStatusSafely, between Lock and Unlock.
InUpdate == {p \in Callers : callers[p].pc = "locked"}

\* A record is visible: present, and not older than a positive TTL.
Visible(jobID) ==
  /\ jobID \in DOMAIN jobs
  /\ ~(cfg.JobTTL > 0 /\ clock - createdAt[jobID] > cfg.JobTTL)

\* C11: concurrent UpdateStatusSafely calls, on one job or on several,
\* run their updaters one at a time under the lock, and every record's
\* result mapping holds exactly the entries the updaters applied to that
\* record wrote: none is lost and none comes from another job.
C11_UpdatesSerializedNoneLost ==
  /\ Cardinality(InUpdate) <= 1
  /\ \A p \in InUpdate : mu = p
  /\ DOMAIN applied = DOMAIN jobs
  /\ \A j \in DOMAIN jobs : jobs[j].Results = applied[j]

\* C11 witness: both callers have updated, on two jobs and on the same
\* job, and one of them is inside a third call.
C11_Witness ==
  /\ callers[1].pc = "locked"
  /\ callers[2].op = "update" /\ ~callers[2].err
  /\ DOMAIN jobs = JobIDs
  /\ DOMAIN jobs["job-1"].Results = StoreKeys
  /\ DOMAIN jobs["job-2"].Results = {"en"}

C13_GetStatusGivesSnapshot ==
  \A p \in Callers :
    (callers[p].op = "get" /\ callers[p].found
       /\ callers[p].jobID \in DOMAIN jobs) =>
      callers[p].seen = [status |-> jobs[callers[p].jobID],
                         updatedAt |-> updatedAt[callers[p].jobID]]

\* C14: UpdateStatusSafely on an absent or expired record returns
\* StatusNotFoundError, runs no updater and leaves every record and every
\* update timestamp as it was.
C14_UpdateOfMissingChangesNothing ==
  [][\A p \in Callers :
       (callers[p].pc = "locked" /\ callers'[p].pc = "idle"
          /\ ~Visible(callers[p].jobID)) =>
         /\ callers'[p].err
         /\ jobs' = jobs
         /\ createdAt' = createdAt
         /\ updatedAt' = updatedAt
         /\ applied' = applied]_vars

\* C14 witness: an update of a record that is past its TTL and still in
\* the map has returned the error, and so has one of an absent record.
C14_Witness ==
  /\ callers[1].op = "update" /\ callers[1].err
  /\ callers[1].jobID \in DOMAIN jobs
  /\ IsExpired(callers[1].jobID)
  /\ callers[2].op = "update" /\ callers[2].err
  /\ callers[2].jobID \notin DOMAIN jobs

\* ------------------------------------------- claims on the rate limiter
\* The Allow calls for one identifier that have returned, in order.
CallsOf(identifier) ==
  SelectSeq(history, LAMBDA c : c.identifier = identifier)

\* The calls of h numbered 1..n were all made at the instant t.
MadeAt(h, n, t) == \A k \in 1..n : h[k].at = t

\* Every Allow call begun for the identifier so far, returned or not, read
\* the clock at the present instant: the identifier was not seen before.
FirstSeenNow(identifier) ==
  /\ MadeAt(CallsOf(identifier), Len(CallsOf(identifier)), clock)
  /\ \A q \in Callers :
       allows[q].identifier = identifier => allows[q].now = clock

\* C15: of the Allow calls made for a new identifier while no time passes,
\* exactly the first requestsPerMinute are admitted and every later one is
\* rejected; and after a burst of requestsPerMinute + 1 calls the next
\* call, made when at least 60 / requestsPerMinute seconds have elapsed,
\* is admitted.
C15_BurstThenRefill ==
  \A i \in ClientIPs :
    LET h == CallsOf(i)
        n == Len(h)
        C == requestsPerMinute
    IN /\ (n > 0 /\ FirstSeenNow(i) /\ n <= C + 1) =>
            \A k \in 1..n : h[k].ok = (k <= C)
       /\ (n = C + 2 /\ MadeAt(h, C + 1, h[1].at)
             /\ (h[n].at - h[1].at) * C >= Minute) => h[n].ok

\* C15 witness: capacity 2; three calls at 0 give admitted, admitted,
\* rejected, and the call 30 seconds later is admitted.
C15_Witness ==
  /\ requestsPerMinute = 2
  /\ history = << [identifier |-> "10.0.0.1", at |-> 0, ok |-> TRUE],
                  [identifier |-> "10.0.0.1", at |-> 0, ok |-> TRUE],
                  [identifier |-> "10.0.0.1", at |-> 0, ok |-> FALSE],
                  [identifier |-> "10.0.0.1", at |-> HalfMinute, ok |-> TRUE] >>

\* The count a bucket has after the lazy refill of a call that read the
\* clock at `now`: floor(elapsed * rate / 60) more when that is positive,
\* capped at the capacity.
CountAfterRefill(bucket, now) ==
  LET due == ((now - bucket.lastRefill) * requestsPerMinute) \div Minute
      sum == IF due > 0 THEN bucket.tokens + due ELSE bucket.tokens
  IN IF sum > requestsPerMinute /\ due > 0 THEN requestsPerMinute ELSE sum

C17_NoUnlockedReadDuringWrite ==
  ~(pc = "mark" /\ idx <= NumLangs /\ WriterAtMap)

\* The step writes the entry of language l in the result mapping.
WritesEntry(l) ==
  /\ JobID \in DOMAIN jobs'
  /\ l \in DOMAIN jobs'[JobID].Results
  /\ (Accepted /\ l \in DOMAIN Results) => jobs'[JobID].Results[l] # Results[l]

\* C18: the coordinator's cancellation path writes an entry only for a
\* language whose unit was never started, so each entry has one writer.
C18_OneWriterPerLanguage ==
  [][\A l \in Langs :
       (pc = "markWrite" /\ pc' = "mark" /\ WritesEntry(l)) =>
         unit[l].pc = "unstarted"]_vars

\* C19: once a language's entry is completed or failed, no step changes it.
C19_LanguageResultIsTerminal ==
  [][\A l \in Langs :
       (/\ Accepted
        /\ l \in DOMAIN Results
        /\ Results[l].Status \in {StatusCompleted, StatusFailed}
        /\ JobID \in DOMAIN jobs'
        /\ l \in DOMAIN jobs'[JobID].Results) =>
         jobs'[JobID].Results[l] = Results[l]]_vars

\* C20: a step of the detached webhook task, whatever the delivery gives,
\* leaves the job store and the coordinator as they were, and the
\* coordinator has returned whenever a delivery is pending or made.
C20_DeliveryLeavesJobAlone ==
  /\ []((webhooks > 0 \/ notified > 0) => pc \in ExitPcs)
  /\ [][(webhooks' < webhooks \/ notified' # notified
           \/ delivery' # delivery) =>
          UNCHANGED <<jobs, expired, createdAt, updatedAt, pc, idx, unit,
                      semaphore, done>>]_vars

\* C20 witness: delivery failed on every attempt and the job stands
\* completed.
C20_Witness ==
  /\ delivery.attempts = MaxRetries
  /\ delivery.err
  /\ notified = 1
  /\ Status = StatusCompleted

\* ------------------------------------------------- claims on the notifier
\* C21: NotifyWebhook makes at most MaxRetries attempts, every attempt
\* before its last one failed (it stops at the first 2xx), it slept k
\* seconds before attempt k + 1, and it returns an error exactly when it
\* made MaxRetries attempts and none was answered 2xx.
C21_BoundedRetriesWithBackoff ==
  LET n == delivery.attempts
      failed(k) == delivery.answered[k] \in {"non2xx", "error"}
  IN /\ n <= MaxRetries
     /\ Len(delivery.answered) = n
     /\ \A k \in 1..(n - 1) : failed(k)
     /\ delivery.slept = [k \in 1..(n - 1) |-> k]
     /\ delivery.err <=> (n = MaxRetries /\ \A k \in 1..n : failed(k))
     /\ (n > 0 /\ ~delivery.err) => delivery.answered[n] = "2xx"

\* C21 witness: a connection error, one second of sleep, then a 2xx: the
\* call returned nil after two attempts.
C21_Witness ==
  /\ delivery.answered = <<"error", "2xx">>
  /\ delivery.slept = <<1>>
  /\ ~delivery.err
  /\ notified = 1

C24_SweepRemovesOnlyStale ==
  [][/\ \A i \in DOMAIN buckets \ DOMAIN buckets' :
          /\ bucketHeap[buckets[i]].lastRefill < clock - Hour
          /\ \A r \in DOMAIN bucketHeap \cap DOMAIN bucketHeap' :
               bucketHeap'[r] = bucketHeap[r]
     /\ \A i \in DOMAIN buckets' \ DOMAIN buckets :
          bucketHeap'[buckets'[i]] =
            [tokens |-> requestsPerMinute, lastRefill |-> clock]]_vars

\* The time of the last tick of the store's sweep ticker.
LastSweepTick == clock - (clock % SweepEvery)

\* C23: a record leaves the store only by a sweep under a positive TTL,
\* when its age exceeds the TTL and GetStatus no longer returns it, and a
\* sweep removes every such record; with TTL zero the sweep task has
\* returned, nothing is deleted and every stored record stays visible;
\* with a positive TTL, once the sweep of a tick has run no record older
\* than the TTL at that tick is left.
C23_SweepDeletesExactlyExpired ==
  /\ [][/\ \A j \in DOMAIN jobs \ DOMAIN jobs' :
             /\ cfg.JobTTL > 0
             /\ clock - createdAt[j] > cfg.JobTTL
             /\ ~Visible(j)
        /\ (sweeper = "ticked" /\ sweeper' = "waiting") =>
             DOMAIN jobs' = {j \in DOMAIN jobs :
                               ~(clock - createdAt[j] > cfg.JobTTL)}]_vars
  /\ [](cfg.JobTTL = 0 =>
          /\ sweeper = "returned"
          /\ \A j \in DOMAIN jobs : Visible(j))
  /\ []((cfg.JobTTL > 0 /\ sweeper = "waiting") =>
          \A j \in DOMAIN jobs :
            ~(LastSweepTick - createdAt[j] > cfg.JobTTL))

\* C23 witness: a record that GetStatus once returned has been removed by
\* the sweep while a younger record is still stored.
C23_Witness ==
  /\ cfg.JobTTL = 2
  /\ callers[1].op = "get"
  /\ callers[1].jobID = "job-1"
  /\ callers[1].found
  /\ "job-1" \notin DOMAIN jobs
  /\ "job-2" \in DOMAIN jobs
  /\ sweeper = "waiting"

\* C25: once the owner has signalled stop, both sweep tasks eventually
\* return, and a task that has returned deletes nothing.
C25_SweepTasksStop ==
  /\ stopCleanup ~> (cleaner = "returned" /\ sweeper = "returned")
  /\ [][/\ cleaner = "returned" => DOMAIN buckets \subseteq DOMAIN buckets'
        /\ sweeper = "returned" => DOMAIN jobs \subseteq DOMAIN jobs']_vars

\* ------------------------------------------- claims on the coordinator
\* C26: once processTranslation has returned, by whatever path, the only
\* temporary files on disk are those of a unit that is still inside
\* processLanguage, which removes them when it returns.
C26_NoTempFileRemains ==
  pc \in ExitPcs =>
    \A f \in files : \E l \in Langs : f \in LangFiles(l, unit[l].pc)

\* The downloaded video is over the duration limit or over the size limit.
OverPolicy ==
  video.duration > MaxVideoDuration \/ video.sizeMB > MaxVideoSizeMB

\* C28: a job whose video is over the duration or the size limit gets no
\* further than the duration check: it is never transcribed, none of its
\* units is started, and when processTranslation has returned the job,
\* if still visible, is failed.
C28_OverPolicyFailsInPreprocessing ==
  OverPolicy =>
    /\ pc \in {"check2", "duration", "exit_pre"}
    /\ \A l \in Langs : unit[l].pc = "unstarted"
    /\ (pc = "exit_pre" /\ Accepted /\ ~IsExpired(JobID)) =>
         Status = StatusFailed

\* The request was turned away: by the rate limiter, or by validation.
Refused == handlerPc \in {"limited", "rejected"}

\* processTranslation has been started, or a unit of it has.
PipelineStarted ==
  pc # "unstarted" \/ \E l \in Langs : unit[l].pc # "unstarted"

\* C27: the job record is created only by the handler of an admitted and
\* valid request, as processing with an empty result mapping; it is in
\* the store once the handler has answered and before any pipeline step;
\* a request refused by the rate limiter or by validation has no job
\* record and no processing, and stays so.
C27_JobOnlyForAdmittedValidRequest ==
  /\ [](Accepted => /\ ValidateVideoURL(req.VideoURL)
                    /\ ValidateLanguageCodes(req.TargetLanguages)
                    /\ handlerPc \in {"stored", "spawned", "returned"})
  /\ []((handlerPc \in {"spawned", "returned"} \/ PipelineStarted)
          => Accepted)
  /\ [](Refused => ~Accepted /\ ~PipelineStarted)
  /\ [][(~Accepted /\ Accepted') =>
          /\ handlerPc = "received"
          /\ jobs'[JobID].Status = StatusProcessing
          /\ jobs'[JobID].Results = << >>
          /\ ~PipelineStarted']_vars
  /\ [][Refused => Refused']_vars

\* An admitted valid request has its job stored and its pipeline running.
C27_Witness ==
  /\ Accepted
  /\ handlerPc = "spawned"
  /\ pc = "download"

\* ------------------------------------------------ the rest of the process
\* The handler, the pipeline, the store and the limiter of the single job,
\* before anything has happened to them.
JobAtRest ==
  /\ req = [VideoURL |-> "gs://bucket/video.mp4", TargetLanguages |-> <<"en">>]
  /\ handlerPc = "arrived"
  /\ jobs = << >>
  /\ expired = {}
  /\ ctxErr = ""
  /\ pc = "unstarted"
  /\ idx = 1
  /\ unit = [l \in Langs |-> [pc |-> "unstarted", result |-> NewResult]]
  /\ semaphore = 0
  /\ done = "unmade"
  /\ webhooks = 0
  /\ notified = 0
  /\ crashed = FALSE
  /\ delivery = NoDelivery
  /\ video = NoVideo
  /\ tempFiles = {}
  /\ files = {}
  /\ StoreAtRest
  /\ requestsPerMinute = RateLimitRPM
  /\ LimiterAtRest

\* What the steps on the language tags and on the arrivals leave alone.
jobVars == <<pipelineVars, cfg, jobs, expired, envVars>>

\* --------------------------------------------- the source-language tag
\* req.SourceLanguage: the optional hint of the request.
SourceLanguages == {"", "fr", "en", "ar-EG"}
\* resp.Results[0].LanguageCode of the recognition response.
LanguageCodes == {"", "fr-FR", "en-US"}
\* The target languages of the job.
Targets == Range(SupportedLanguages)

\* A language detection that prefers the tag of the response to the hint.
DetectedLanguageFromResponse(languageHint, LanguageCode) ==
  IF LanguageCode # "" THEN LanguageCode ELSE languageHint

\* SpeechToText's detectedLanguage: the hint when one is given, otherwise
\* the language code of the response, which may be empty.
DetectedLanguage(languageHint, LanguageCode) ==
  IF languageHint # "" THEN languageHint ELSE LanguageCode

\* processTranslation's sourceLanguage: transcription.Language, then
\* req.SourceLanguage, then "auto".
SourceLanguageOf(Language, SourceLanguage) ==
  IF Language # "" THEN Language
  ELSE IF SourceLanguage # "" THEN SourceLanguage
  ELSE "auto"

LanguageInit ==
  /\ cfg = [MaxConcurrentTranslations |-> 1, WebhookURL |-> "", JobTTL |-> 0]
  /\ JobAtRest
  /\ ArrivalsAtRest
  /\ DiskAtRest
  /\ \E hint \in SourceLanguages, code \in LanguageCodes :
       stt = [pc |-> "recognize", languageHint |-> hint,
              LanguageCode |-> code, Language |-> "", sourceLanguage |-> "",
              translated |-> [l \in Targets |-> ""]]

\* stt.SpeechToText(ctx, audioPath, req.SourceLanguage) returns a
\* transcription.
SpeechToTextReturns ==
  /\ stt.pc = "recognize"
  /\ stt' = [stt EXCEPT !.pc = "resolve",
                        !.Language = DetectedLanguage(stt.languageHint,
                                                      stt.LanguageCode)]
  /\ UNCHANGED <<jobVars, arrivals, disk>>

\* stt.SpeechToText returns an error: no unit is started.
SpeechToTextFails ==
  /\ stt.pc = "recognize"
  /\ stt' = [stt EXCEPT !.pc = "failed"]
  /\ UNCHANGED <<jobVars, arrivals, disk>>

\* processTranslation works out sourceLanguage.
ResolveSourceLanguage ==
  /\ stt.pc = "resolve"
  /\ stt' = [stt EXCEPT !.pc = "fanout",
                        !.sourceLanguage = SourceLanguageOf(stt.Language,
                                                            stt.languageHint)]
  /\ UNCHANGED <<jobVars, arrivals, disk>>

\* processLanguage of one target calls translation.TranslateText with
\* the coordinator's sourceLanguage.
TranslateText(l) ==
  /\ stt.pc = "fanout"
  /\ stt.translated[l] = ""
  /\ stt' = [stt EXCEPT !.translated[l] = stt.sourceLanguage]
  /\ UNCHANGED <<jobVars, arrivals, disk>>

LanguageNext ==
  \/ SpeechToTextReturns
  \/ SpeechToTextFails
  \/ ResolveSourceLanguage
  \/ \E l \in Targets : TranslateText(l)

LanguageSpec == LanguageInit /\ [][LanguageNext]_vars

MaxJobs == 2
\* The translate requests that reach the process: one more than it may
\* run jobs.
Arrivals == 1..(MaxJobs + 1)

\* The configurations with their limit on concurrent jobs.
JobConfigs ==
  [MaxConcurrentTranslations : {1}, WebhookURL : {""}, JobTTL : {0},
   MaxConcurrentJobs : 1..MaxJobs]

\* The bodies of the arriving requests: one that passes validation and
\* one that does not.
ArrivingRequests ==
  {[VideoURL |-> "gs://bucket/video.mp4", TargetLanguages |-> <<"en">>],
   [VideoURL |-> "gs://bucket/video.mp4", TargetLanguages |-> << >>]}

\* filepath.Base of the object path of the model's URLs.
BaseName(url) ==
  IF url \in {"gs://bucket/video.mp4", "https://example.com/video.mp4"}
  THEN "video.mp4" ELSE "downloaded_file"

\* Download's tmpPath: download_<pid>_<base name of the object path>.
DownloadPath(url) == "download_pid_" \o BaseName(url)

\* ExtractAudioFromVideo's audioPath: audio_<pid>.wav.
AudioPath == "audio_pid.wav"

\* The file at `path` is created, or truncated and rewritten, by job r.
WriteFile(d, path, r) == (path :> r) @@ d

\* os.Remove of every path in `paths`.
RemoveFiles(d, paths) == [f \in DOMAIN d \ paths |-> d[f]]

JobsInit ==
  /\ cfg \in JobConfigs
  /\ JobAtRest
  /\ SttAtRest
  /\ DiskAtRest
  /\ arrivals \in [Arrivals -> [req : ArrivingRequests,
                                handlerPc : {"arrived"},
                                Status : {"none"},
                                pc : {"none"},
                                tempFiles : {{}}]]

\* TranslateVideo: rateLimiter.Allow refuses the request.
ArrivalRateLimited(r) ==
  /\ arrivals[r].handlerPc = "arrived"
  /\ arrivals' = [arrivals EXCEPT ![r].handlerPc = "limited"]
  /\ UNCHANGED <<jobVars, stt, disk>>

\* handleTranslate: the request fails validation.
ArrivalRejected(r) ==
  /\ arrivals[r].handlerPc = "arrived"
  /\ ~ValidRequest(arrivals[r].req)
  /\ arrivals' = [arrivals EXCEPT ![r].handlerPc = "rejected"]
  /\ UNCHANGED <<jobVars, stt, disk>>

\* handleTranslate: the request is valid; the job is stored as
\* processing, the 202 is written and processTranslation is started.
ArrivalAccepted(r) ==
  /\ arrivals[r].handlerPc = "arrived"
  /\ ValidRequest(arrivals[r].req)
  /\ arrivals' = [arrivals EXCEPT ![r].handlerPc = "returned",
                                  ![r].Status = StatusProcessing,
                                  ![r].pc = "download"]
  /\ UNCHANGED <<jobVars, stt, disk>>

\* processTranslation of the job downloads the source: os.Create makes or
\* truncates the file at the download path and the path joins tempFiles.
ArrivalDownload(r) ==
  /\ arrivals[r].pc = "download"
  /\ LET path == DownloadPath(arrivals[r].req.VideoURL) IN
       /\ disk' = WriteFile(disk, path, r)
       /\ arrivals' = [arrivals EXCEPT ![r].pc = "extract",
                                       ![r].tempFiles = @ \cup {path}]
  /\ UNCHANGED <<jobVars, stt>>

\* processTranslation of the job extracts the audio: ffmpeg -y writes the
\* audio path over whatever is there and the path joins tempFiles.
ArrivalExtractAudio(r) ==
  /\ arrivals[r].pc = "extract"
  /\ disk' = WriteFile(disk, AudioPath, r)
  /\ arrivals' = [arrivals EXCEPT ![r].pc = "transcribe",
                                  ![r].tempFiles = @ \cup {AudioPath}]
  /\ UNCHANGED <<jobVars, stt>>

\* processTranslation of the job gives the job its final status and
\* returns, from any of its stages: the deferred cleanup removes every
\* path of tempFiles.
ArrivalProcessed(r) ==
  /\ arrivals[r].Status = StatusProcessing
  /\ \E final \in Terminal :
       arrivals' = [arrivals EXCEPT ![r].Status = final,
                                    ![r].pc = "returned",
                                    ![r].tempFiles = {}]
  /\ disk' = RemoveFiles(disk, arrivals[r].tempFiles)
  /\ UNCHANGED <<jobVars, stt>>

JobsNext ==
  \E r \in Arrivals :
    \/ ArrivalRateLimited(r)
    \/ ArrivalRejected(r)
    \/ ArrivalAccepted(r)
    \/ ArrivalDownload(r)
    \/ ArrivalExtractAudio(r)
    \/ ArrivalProcessed(r)

JobsSpec == JobsInit /\ [][JobsNext]_vars

\* The requests whose job is being processed.
Processing ==
  {r \in DOMAIN arrivals : arrivals[r].Status = StatusProcessing}

\* C30: the jobs in status processing are never more than the configured
\* MAX_CONCURRENT_JOBS.
C30_JobsWithinLimit ==
  Cardinality(Processing) <= cfg.MaxConcurrentJobs

\* C31: every result stored for the job is completed or failed; a
\* completed one has an output reference, progress 100, a completion
\* time and no error text; a failed one has an error text and no output
\* reference.
C31_StoredResultsWellFormed ==
  \A k \in DOMAIN Results :
    LET r == Results[k] IN
      /\ r.Status \in Terminal
      /\ r.Status = StatusCompleted =>
           /\ r.VideoURL # ""
           /\ r.Progress = 100
           /\ r.ProcessedAt
           /\ r.Error = ""
      /\ r.Status = StatusFailed =>
           /\ r.Error # ""
           /\ r.VideoURL = ""

\* The job holds a completed result for one language and a failed one
\* for another.
C31_Witness ==
  /\ \E k \in DOMAIN Results : Results[k].Status = StatusCompleted
  /\ \E k \in DOMAIN Results : Results[k].Status = StatusFailed
  /\ DOMAIN Results = Langs

\* The buckets of an identifier: the one the map holds for it and the
\* ones its calls in progress hold, each with its count and lastRefill.
BucketsOf(identifier, bk, heap, al) ==
  (IF identifier \in DOMAIN bk
   THEN {<<bk[identifier], heap[bk[identifier]]>>} ELSE {})
  \cup {<<al[c].bucket, heap[al[c].bucket]>> :
          c \in {d \in Callers : /\ al[d].pc = "entered"
                                 /\ al[d].identifier = identifier}}

\* C32: a step of an Allow call for one identifier, its entry or its
\* locked part, leaves the buckets of every other identifier as they
\* were: the same objects with the same count and the same lastRefill.
C32_AllowTouchesOnlyItsBucket ==
  [][\A q \in Callers :
       allows'[q] # allows[q] =>
         LET mine == IF allows[q].pc = "idle" THEN allows'[q].identifier
                     ELSE allows[q].identifier
         IN \A other \in ClientIPs \ {mine} :
              BucketsOf(other, buckets', bucketHeap', allows') =
                BucketsOf(other, buckets, bucketHeap, allows)]_vars

\* One identifier has used up its bucket while the other, called once in
\* between, has its remaining token.
C32_Witness ==
  /\ requestsPerMinute = 2
  /\ history = << [identifier |-> "10.0.0.1", at |-> 0, ok |-> TRUE],
                  [identifier |-> "10.0.0.2", at |-> 0, ok |-> TRUE],
                  [identifier |-> "10.0.0.1", at |-> 0, ok |-> TRUE],
                  [identifier |-> "10.0.0.1", at |-> 0, ok |-> FALSE] >>
  /\ "10.0.0.2" \in DOMAIN buckets
  /\ bucketHeap[buckets["10.0.0.2"]] = [tokens |-> 1, lastRefill |-> 0]

\* The calls of h that were admitted.
Admitted(h) == SelectSeq(h, LAMBDA c : c.ok)

\* C39: the lastRefill of a bucket never moves backwards; an Allow call
\* whose clock reading is older than the bucket's lastRefill leaves
\* lastRefill alone and changes the count only by the token it takes;
\* before any sweep can run, every call in progress for an identifier
\* holds the bucket the map keeps for it, and the calls made for an
\* identifier at one instant are admitted at most requestsPerMinute times.
C39_RacingCallsKeepOneBucket ==
  /\ [][\A r \in DOMAIN bucketHeap \cap DOMAIN bucketHeap' :
          bucketHeap'[r].lastRefill >= bucketHeap[r].lastRefill]_vars
  /\ [][\A q \in Callers :
          (/\ allows[q].pc = "entered"
           /\ allows'[q].pc = "idle"
           /\ allows[q].now < bucketHeap[allows[q].bucket].lastRefill
           /\ allows[q].bucket \in DOMAIN bucketHeap') =>
            LET before == bucketHeap[allows[q].bucket]
                after == bucketHeap'[allows[q].bucket]
            IN /\ after.lastRefill = before.lastRefill
               /\ after.tokens =
                    IF before.tokens > 0 THEN before.tokens - 1
                    ELSE before.tokens]_vars
  /\ [](clock < Hour =>
          \A q \in Callers :
            allows[q].pc = "entered" =>
              /\ allows[q].identifier \in DOMAIN buckets
              /\ allows[q].bucket = buckets[allows[q].identifier])
  /\ [](clock < Hour =>
          \A i \in ClientIPs :
            LET h == CallsOf(i) IN
              (Len(h) > 0 /\ MadeAt(h, Len(h), h[1].at)) =>
                Len(Admitted(h)) <= requestsPerMinute)

\* A call that read the clock at 0 took the lock after a call that read
\* it 30 seconds later had refilled the bucket: it found no token and
\* added none.
C39_Witness ==
  /\ requestsPerMinute = 2
  /\ history = << [identifier |-> "10.0.0.1", at |-> 0, ok |-> TRUE],
                  [identifier |-> "10.0.0.1", at |-> 0, ok |-> TRUE],
                  [identifier |-> "10.0.0.1", at |-> HalfMinute, ok |-> TRUE],
                  [identifier |-> "10.0.0.1", at |-> 0, ok |-> FALSE] >>
  /\ bucketHeap[buckets["10.0.0.1"]] =
       [tokens |-> 0, lastRefill |-> HalfMinute]

\* C33: UpdateStatusSafely on a record that is present and not expired
\* returns no error, leaves the updater's entry in the record and an
\* update timestamp not earlier than the one before; a GetStatus made
\* afterwards gets the record with every entry the updates that returned
\* wrote and with the timestamp now stored; and a record's update
\* timestamp never decreases.
C33_UpdateIsVisibleAndStamped ==
  /\ [][\A p \in Callers :
          (callers[p].pc = "locked" /\ callers'[p].pc = "idle"
             /\ Visible(callers[p].jobID)) =>
            LET j == callers[p].jobID
                k == callers[p].key
            IN /\ ~callers'[p].err
               /\ k \in DOMAIN jobs'[j].Results
               /\ jobs'[j].Results[k] = StoreResult(k)
               /\ updatedAt'[j] >= updatedAt[j]
               /\ updatedAt'[j] = clock]_vars
  /\ [][\A p \in Callers :
          (callers'[p] # callers[p] /\ callers'[p].op = "get"
             /\ callers'[p].found) =>
            LET j == callers'[p].jobID IN
              /\ callers'[p].seen.status.Results = applied[j]
              /\ callers'[p].seen.updatedAt = updatedAt[j]]_vars
  /\ [][\A j \in DOMAIN updatedAt \cap DOMAIN updatedAt' :
          updatedAt'[j] >= updatedAt[j]]_vars

\* A record made at 0 was updated at 1 and a GetStatus made afterwards
\* saw the entry and the later timestamp.
C33_Witness ==
  /\ "job-1" \in DOMAIN jobs
  /\ createdAt["job-1"] = 0
  /\ callers[1].op = "update" /\ callers[1].jobID = "job-1"
  /\ ~callers[1].err
  /\ callers[2].op = "get" /\ callers[2].jobID = "job-1"
  /\ callers[2].found
  /\ "en" \in DOMAIN callers[2].seen.status.Results
  /\ callers[2].seen.updatedAt = 1

\* The positions of a unit inside a stage: the call of the stage is made.
StagePcs == {"translate", "tts", "sync", "upload"}

\* C34: a unit that gets its permit with the context cancelled goes
\* straight to recording a failed result that names the cancellation, and
\* no unit enters a stage, translation, synthesis, remux or upload, at a
\* boundary where the context is already cancelled.
C34_NoStageAfterCancellation ==
  /\ [][\A l \in Langs :
          (unit[l].pc = "acquire" /\ unit'[l].pc # "acquire"
             /\ ctxErr # "") =>
            /\ unit'[l].pc = "write"
            /\ unit'[l].result =
                 FailedResult("processing cancelled: " \o ctxErr)]_vars
  /\ [][\A l \in Langs :
          (unit'[l].pc # unit[l].pc /\ unit'[l].pc \in StagePcs) =>
            ctxErr = ""]_vars

\* Every unit the coordinator started has written its result and returned.
StartedUnitsDone == \A l \in Langs : unit[l].pc \in {"unstarted", "done"}

\* C35: the coordinator leaves its wait only when every started unit is
\* done, or from the grace period begun on a cancelled context; and it
\* neither changes the job's status nor returns while a started unit is
\* still running unless it has been through that wait.
C35_CoordinatorWaitsForUnits ==
  /\ [][(pc' # pc /\ pc' = "check5") =>
          \/ StartedUnitsDone
          \/ (pc = "grace" /\ ctxErr # "")]_vars
  /\ [][(pc' # pc /\ (pc' \in ExitPcs \/ Status' # Status)) =>
          \/ pc \in {"check5", "final"}
          \/ StartedUnitsDone]_vars

\* C37: the job's source video is on disk whenever a unit of the job is
\* inside the remux that reads it, and the coordinator's deferred cleanup
\* runs only when every started unit has returned.
C37_VideoOutlivesUnits ==
  /\ []((\E l \in Langs : unit[l].pc = "sync") => "video" \in files)
  /\ [][(pc' \in ExitPcs /\ pc \notin ExitPcs /\ tempFiles # {}) =>
          StartedUnitsDone]_vars

\* C38: once processTranslation has returned, having set the job's
\* terminal status and started the notification, the stored job stays as
\* it is: no unit writes into the result mapping afterwards.
C38_JobFrozenAfterReturn ==
  [][(pc \in ExitPcs /\ Status \in Terminal) => jobs' = jobs]_vars

\* C36: every temporary file a job that is still processing has created
\* is on disk with that job's content: no other job has written over it
\* or removed it.
C36_TempFilesOfJobsDisjoint ==
  \A r \in DOMAIN arrivals :
    arrivals[r].Status = StatusProcessing =>
      \A f \in arrivals[r].tempFiles :
        f \in DOMAIN disk /\ disk[f] = r

====
